---- MODULE Spec2Model ----
(***************************************************************************)
(* Verification model of the quantitative pipeline of webscrapper-ai:      *)
(* weighted scoring, EWMA baseline, z-score, CUSUM, lane health roll-up,   *)
(* attribution, and the weekly orchestrator scripts/run_pipeline.py.       *)
(*                                                                         *)
(* Numbers.  Python floats are modelled as fixed-point integers with four  *)
(* decimals (1.0 is SCALE): every weight of the weight matrix is a         *)
(* multiple of 0.1, so a weighted score, a product of four weights and an  *)
(* integer delta, is exact at that resolution.  Products, quotients and    *)
(* the square root round to the resolution, as a float operation rounds to *)
(* its own.  Attribution only divides, and keeps its fractions as exact    *)
(* rationals <<numerator, denominator>>.  An optional value (float | None) *)
(* is a sequence of length at most one: None is <<>>, a value v is <<v>>.  *)
(***************************************************************************)
EXTENDS Integers, Sequences, FiniteSets, TLC

VARIABLES
    call,       \* the pure function under test: [fn, args, ret]
    det,        \* a CUSUMDetector object: [k, h, upper, lower]
    detLog,     \* what the last CUSUMDetector method call saw and returned
    base,       \* an EWMABaseline object: [lam, mean, variance]
    baseLog,    \* what the last EWMABaseline.update call saw and returned
    settings,   \* src/config.py: the process-wide Settings object
    events,     \* table events: the Event rows, ordered by date_observed
    snapshots,  \* table index_snapshots: the set of its rows
    health,     \* table lane_health: the set of its rows
    sess,       \* per run_pipeline invocation: its session and local variables
    lastRun     \* what the last completed run_pipeline call saw and did

vars == <<call, det, detLog, base, baseLog, settings, events, snapshots, health, sess, lastRun>>
objVars == <<call, det, detLog, base, baseLog>>
dbVars == <<events, snapshots, health>>
runVars == <<settings, events, snapshots, health, sess, lastRun>>

----------------------------------------------------------------------------
(* Numbers *)

SCALE == 10 * 10 * 10 * 10

None == <<>>
Some(v) == <<v>>
IsNone(o) == o = <<>>
Val(o) == o[1]

Abs(x) == IF x < 0 THEN -x ELSE x
Sgn(x) == IF x < 0 THEN -1 ELSE IF x = 0 THEN 0 ELSE 1
Max(a, b) == IF a >= b THEN a ELSE b
Min(a, b) == IF a <= b THEN a ELSE b

\* n / d rounded to the nearest integer, d > 0
RoundDiv(n, d) == Sgn(n) * ((Abs(n) + d \div 2) \div d)

\* a * b of two fixed-point numbers; the larger factor is split so that no
\* intermediate product leaves 32 bits
FMul(a, b) ==
    LET A == Max(Abs(a), Abs(b))
        B == Min(Abs(a), Abs(b))
    IN  Sgn(a) * Sgn(b) * ((A \div SCALE) * B + ((A % SCALE) * B + SCALE \div 2) \div SCALE)

\* a / b of two fixed-point numbers, b > 0
FDiv(a, b) == RoundDiv(a * SCALE, b)

\* (v * SCALE) \div m for v >= 0 and 0 < m <= 20 * SCALE, in parts that stay
\* within 32 bits
ScaledQuot(v, m) == (v \div m) * SCALE + ((v % m) * SCALE) \div m

RECURSIVE ISqrtRec(_, _, _)
\* the largest r in lo..hi-1 with r * r <= v * SCALE, by bisection
ISqrtRec(v, lo, hi) ==
    IF hi - lo <= 1 THEN lo
    ELSE LET mid == (lo + hi) \div 2
         IN  IF mid <= ScaledQuot(v, mid) THEN ISqrtRec(v, mid, hi) ELSE ISqrtRec(v, lo, mid)

\* math.sqrt of a fixed-point number v >= 0, rounded down to the resolution
FSqrt(v) == ISqrtRec(v, 0, 20 * SCALE)

RECURSIVE GCD(_, _)
GCD(a, b) == IF b = 0 THEN a ELSE GCD(b, a % b)

\* exact rationals in lowest terms, denominator > 0
Rat(n, d) == LET g == GCD(Abs(n), d) IN IF n = 0 THEN <<0, 1>> ELSE <<n \div g, d \div g>>
RAdd(p, q) == Rat(p[1] * q[2] + q[1] * p[2], p[2] * q[2])
RDiv(p, q) == Rat(p[1] * q[2], p[2] * q[1])

EmptyMap == [x \in {} |-> <<0, 1>>]

----------------------------------------------------------------------------
(* src/config.py: the defaults of the process-wide settings *)

ewma_lambda_rpi == 480
ewma_lambda_lsi == 480
ewma_lambda_cpi == 480
cusum_k == 5000
cusum_h == 45000
lane_health_watch == 4
lane_health_active == 8

Settings ==
    [ewma_lambda_rpi |-> ewma_lambda_rpi, ewma_lambda_lsi |-> ewma_lambda_lsi,
     ewma_lambda_cpi |-> ewma_lambda_cpi, cusum_k |-> cusum_k, cusum_h |-> cusum_h,
     lane_health_watch |-> lane_health_watch, lane_health_active |-> lane_health_active]

----------------------------------------------------------------------------
(* src/db/models.py: enumerations *)

IndexType == {"RPI", "LSI", "CPI"}
SourceLayer == {"Primary", "Logistics", "Market", "Industry"}
EventStatus == {"Draft", "Announced", "Enforced"}
ConfidenceLevel == {"High", "Medium", "Low"}
Jurisdiction == {"UK", "India", "Vietnam", "Egypt", "Bilateral"}
HealthStatus == {"STABLE", "WATCH", "ACTIVE"}

----------------------------------------------------------------------------
(* src/pipeline/rollup.py *)

compute_lane_health_gt(rpi_total, lsi_total, cpi_total) ==
    LET combined == rpi_total + lsi_total + cpi_total
    IN  <<combined,
          IF combined > settings.lane_health_active THEN "ACTIVE"
          ELSE IF combined > settings.lane_health_watch THEN "WATCH"
          ELSE "STABLE">>

compute_lane_health(rpi_total, lsi_total, cpi_total) ==
    LET combined == rpi_total + lsi_total + cpi_total
    IN  <<combined,
          IF combined >= settings.lane_health_active THEN "ACTIVE"
          ELSE IF combined >= settings.lane_health_watch THEN "WATCH"
          ELSE "STABLE">>

----------------------------------------------------------------------------
(* src/pipeline/zscore.py *)

compute_zscore_lt(value, ewma_mean, ewma_sigma) ==
    IF ewma_sigma < 0 THEN None
    ELSE IF ewma_sigma = 0 THEN Some(0)
    ELSE Some(FDiv(value - ewma_mean, ewma_sigma))

compute_zscore(value, ewma_mean, ewma_sigma) ==
    IF ewma_sigma <= 0 THEN None
    ELSE Some(FDiv(value - ewma_mean, ewma_sigma))

----------------------------------------------------------------------------
(* src/db/seed.py and src/pipeline/scoring.py *)

SOURCE_WEIGHTS ==
    [l \in SourceLayer |->
        CASE l = "Primary" -> SCALE
          [] l = "Logistics" -> 8 * (SCALE \div 10)
          [] l = "Market" -> 7 * (SCALE \div 10)
          [] l = "Industry" -> 6 * (SCALE \div 10)]

STATUS_WEIGHTS ==
    [s \in EventStatus |->
        CASE s = "Enforced" -> SCALE
          [] s = "Announced" -> 7 * (SCALE \div 10)
          [] s = "Draft" -> 4 * (SCALE \div 10)]

CONFIDENCE_WEIGHTS ==
    [c \in ConfidenceLevel |->
        CASE c = "High" -> SCALE
          [] c = "Medium" -> 7 * (SCALE \div 10)
          [] c = "Low" -> 4 * (SCALE \div 10)]

PRECEDENT_WEIGHTS_swapped == [b \in BOOLEAN |-> IF b THEN 12 * (SCALE \div 10) ELSE SCALE]

PRECEDENT_WEIGHTS == [b \in BOOLEAN |-> IF b THEN SCALE ELSE 12 * (SCALE \div 10)]

\* lines 22-25: a dict lookup on a key the table does not hold raises KeyError
compute_weighted_score_raises(source_layer, event_status, confidence_level, historical_precedent) ==
    \/ source_layer \notin DOMAIN SOURCE_WEIGHTS
    \/ event_status \notin DOMAIN STATUS_WEIGHTS
    \/ confidence_level \notin DOMAIN CONFIDENCE_WEIGHTS
    \/ historical_precedent \notin DOMAIN PRECEDENT_WEIGHTS

compute_weighted_score(delta, source_layer, event_status, confidence_level, historical_precedent) ==
    LET source_w == SOURCE_WEIGHTS[source_layer]
        status_w == STATUS_WEIGHTS[event_status]
        confidence_w == CONFIDENCE_WEIGHTS[confidence_level]
        precedent_w == PRECEDENT_WEIGHTS[historical_precedent]
        weighted_score == FMul(FMul(FMul(delta * source_w, status_w), confidence_w), precedent_w)
    IN  <<weighted_score, source_w, status_w, confidence_w, precedent_w>>

----------------------------------------------------------------------------
(* src/pipeline/attribution.py.  A string is a sequence of characters. *)

RECURSIVE Find(_, _, _)
\* index of the first c in s at or after i, 0 when there is none
Find(s, c, i) == IF i > Len(s) THEN 0 ELSE IF s[i] = c THEN i ELSE Find(s, c, i + 1)

RECURSIVE split(_, _)
\* str.split(sep): always at least one piece
split(s, sep) ==
    LET i == Find(s, sep, 1)
    IN  IF i = 0 THEN <<s>>
        ELSE <<SubSeq(s, 1, i - 1)>> \o split(SubSeq(s, i + 1, Len(s)), sep)

RECURSIVE strip(_)
strip(s) ==
    IF s = <<>> THEN s
    ELSE IF Head(s) = " " THEN strip(Tail(s))
    ELSE IF s[Len(s)] = " " THEN strip(SubSeq(s, 1, Len(s) - 1))
    ELSE s

RECURSIVE SumAbs(_)
SumAbs(evs) == IF evs = <<>> THEN 0 ELSE Abs(Head(evs).weighted_score) + SumAbs(Tail(evs))

\* d[k] += v on a defaultdict(float)
AddTo(d, k, v) ==
    [x \in DOMAIN d \cup {k} |->
        IF x = k THEN (IF k \in DOMAIN d THEN RAdd(d[k], v) ELSE v) ELSE d[x]]

RECURSIVE AddEach(_, _, _)
AddEach(d, ks, v) == IF ks = <<>> THEN d ELSE AddEach(AddTo(d, Head(ks), v), Tail(ks), v)

Pathways(e) == LET parts == split(e.impact_pathway, ";") IN [i \in 1..Len(parts) |-> strip(parts[i])]

RECURSIVE Buckets_nosplit(_, _)
Buckets_nosplit(evs, acc) ==
    IF evs = <<>> THEN acc
    ELSE LET e == Head(evs)
             abs_score == <<Abs(e.weighted_score), 1>>
             pathways == Pathways(e)
         IN  Buckets_nosplit(Tail(evs),
                 [by_source |-> AddTo(acc.by_source, e.source_layer, abs_score),
                  by_pathway |-> AddEach(acc.by_pathway, pathways, abs_score),
                  by_jurisdiction |-> AddTo(acc.by_jurisdiction, e.jurisdiction, abs_score)])

RECURSIVE Buckets_firsttag(_, _)
Buckets_firsttag(evs, acc) ==
    IF evs = <<>> THEN acc
    ELSE LET e == Head(evs)
             abs_score == <<Abs(e.weighted_score), 1>>
             pathways == Pathways(e)
         IN  Buckets_firsttag(Tail(evs),
                 [by_source |-> AddTo(acc.by_source, e.source_layer, abs_score),
                  by_pathway |-> AddEach(AddEach(acc.by_pathway, pathways, <<0, 1>>),
                                         <<Head(pathways)>>, abs_score),
                  by_jurisdiction |-> AddTo(acc.by_jurisdiction, e.jurisdiction, abs_score)])

RECURSIVE Buckets(_, _)
\* the loop over events, lines 39-50
Buckets(evs, acc) ==
    IF evs = <<>> THEN acc
    ELSE LET e == Head(evs)
             abs_score == <<Abs(e.weighted_score), 1>>
             pathways == Pathways(e)
             per_pathway == RDiv(abs_score, <<Len(pathways), 1>>)
         IN  Buckets(Tail(evs),
                 [by_source |-> AddTo(acc.by_source, e.source_layer, abs_score),
                  by_pathway |-> AddEach(acc.by_pathway, pathways, per_pathway),
                  by_jurisdiction |-> AddTo(acc.by_jurisdiction, e.jurisdiction, abs_score)])

compute_attribution(evs) ==
    LET total_abs == SumAbs(evs)
        b == Buckets(evs, [by_source |-> EmptyMap, by_pathway |-> EmptyMap, by_jurisdiction |-> EmptyMap])
        Frac(d) == [k \in DOMAIN d |-> RDiv(d[k], <<total_abs, 1>>)]
    IN  IF total_abs = 0
        THEN [source_layer |-> EmptyMap, impact_pathway |-> EmptyMap, jurisdiction |-> EmptyMap]
        ELSE [source_layer |-> Frac(b.by_source),
              impact_pathway |-> Frac(b.by_pathway),
              jurisdiction |-> Frac(b.by_jurisdiction)]

----------------------------------------------------------------------------
(* Bounds and input pools *)

MaxTotal == 4          \* category totals range over -MaxTotal..MaxTotal
MaxAttrEvents == 3     \* events handed to compute_attribution

\* fixed-point samples for compute_zscore
ZValues == {-4000, 0, 4704, 8000, SCALE, 24000}
ZSigmas == {-SCALE, -1, 0, 1, 2086, SCALE, 3 * SCALE}

\* impact_pathway strings; a pathway name is one character here:
\* "C" Cost, "T" Time, "M" Compliance, "A" Availability
AttrEventPool ==
    { [weighted_score |-> -4000, source_layer |-> "Primary",
       impact_pathway |-> <<"M">>, jurisdiction |-> "India"],
      [weighted_score |-> 8000, source_layer |-> "Logistics",
       impact_pathway |-> <<"M", ";", " ", "T">>, jurisdiction |-> "UK"],
      [weighted_score |-> 0, source_layer |-> "Market",
       impact_pathway |-> <<"C">>, jurisdiction |-> "Bilateral"],
      [weighted_score |-> 4704, source_layer |-> "Industry",
       impact_pathway |-> <<"C", ";", "T", ";", "C">>, jurisdiction |-> "UK"],
      [weighted_score |-> 9600, source_layer |-> "Market",
       impact_pathway |-> <<"T", ";">>, jurisdiction |-> "India"] }

SeqsUpTo(S, n) == UNION {[1..m -> S] : m \in 0..n}

----------------------------------------------------------------------------
(* Idle values of the state each specification leaves alone *)

NoCall == [fn |-> "none", args |-> <<>>, ret |-> <<>>]
NoDet == [k |-> 0, h |-> 0, upper |-> 0, lower |-> 0]
NoDetLog == [op |-> "none"]
NoBase == [lam |-> 0, mean |-> None, variance |-> None]
NoBaseLog == [op |-> "none"]
NoLastRun == [op |-> "none"]

NoRuns ==
    /\ settings = Settings
    /\ events = <<>> /\ snapshots = {} /\ health = {}
    /\ sess = <<>> /\ lastRun = NoLastRun

----------------------------------------------------------------------------
(* SpecPure: the pure functions applied to inputs drawn at Init *)

InitPure ==
    /\ \/ \E a, b, c \in -MaxTotal..MaxTotal :
            call = [fn |-> "compute_lane_health", args |-> <<a, b, c>>, ret |-> <<>>]
       \/ \E v, m \in ZValues, sg \in ZSigmas :
            call = [fn |-> "compute_zscore", args |-> <<v, m, sg>>, ret |-> <<>>]
       \/ \E d \in -1..1, l \in SourceLayer, s \in EventStatus, c \in ConfidenceLevel, p \in BOOLEAN :
            call = [fn |-> "compute_weighted_score", args |-> <<d, l, s, c, p>>, ret |-> <<>>]
       \/ \E evs \in SeqsUpTo(AttrEventPool, MaxAttrEvents) :
            call = [fn |-> "compute_attribution", args |-> <<evs>>, ret |-> <<>>]
    /\ det = NoDet /\ detLog = NoDetLog /\ base = NoBase /\ baseLog = NoBaseLog
    /\ NoRuns

Returned(fn) == call.fn = fn /\ call.ret # <<>>
Ret == call.ret[1]

CallLaneHealth ==
    /\ call.fn = "compute_lane_health" /\ call.ret = <<>>
    /\ call' = [call EXCEPT !.ret = <<compute_lane_health(call.args[1], call.args[2], call.args[3])>>]
    /\ UNCHANGED <<det, detLog, base, baseLog, runVars>>

CallZscore ==
    /\ call.fn = "compute_zscore" /\ call.ret = <<>>
    /\ call' = [call EXCEPT !.ret = <<compute_zscore(call.args[1], call.args[2], call.args[3])>>]
    /\ UNCHANGED <<det, detLog, base, baseLog, runVars>>

CallWeightedScore ==
    /\ call.fn = "compute_weighted_score" /\ call.ret = <<>>
    /\ call' = [call EXCEPT !.ret =
            <<compute_weighted_score(call.args[1], call.args[2], call.args[3], call.args[4], call.args[5])>>]
    /\ UNCHANGED <<det, detLog, base, baseLog, runVars>>

CallAttribution ==
    /\ call.fn = "compute_attribution" /\ call.ret = <<>>
    /\ call' = [call EXCEPT !.ret = <<compute_attribution(call.args[1])>>]
    /\ UNCHANGED <<det, detLog, base, baseLog, runVars>>

NextPure == CallLaneHealth \/ CallZscore \/ CallWeightedScore \/ CallAttribution

SpecPure == InitPure /\ [][NextPure]_vars

----------------------------------------------------------------------------
(* Claims about the pure functions (SpecPure) *)

\* C1: compute_lane_health(a, b, c) returns combined = a + b + c and the status
\* whose inclusive lower bound combined has reached: ACTIVE from active_threshold,
\* WATCH from watch_threshold up to it, STABLE below; with the defaults a
\* combined total of exactly 4 is WATCH and of exactly 8 is ACTIVE.
C1_LaneHealthPartition ==
    Returned("compute_lane_health") =>
        LET combined == Ret[1]
            status == Ret[2]
        IN  /\ combined = call.args[1] + call.args[2] + call.args[3]
            /\ status \in HealthStatus
            /\ (status = "ACTIVE") = (combined >= settings.lane_health_active)
            /\ (status = "WATCH") = (settings.lane_health_watch <= combined
                                     /\ combined < settings.lane_health_active)
            /\ (status = "STABLE") = (combined < settings.lane_health_watch)
            /\ (settings = Settings /\ combined = 4 => status = "WATCH")
            /\ (settings = Settings /\ combined = 8 => status = "ACTIVE")

C1_Witness ==
    /\ Returned("compute_lane_health")
    /\ settings = Settings /\ Ret[1] = 4 /\ Ret[2] = "WATCH"
    /\ call.args = <<2, 1, 1>>

\* C8: compute_zscore returns None whenever sigma <= 0 and the quotient
\* (value - mean) / sigma, rounded to the resolution, whenever sigma > 0.
C8_ZscoreUndefinedOrQuotient ==
    Returned("compute_zscore") =>
        LET value == call.args[1]
            mean == call.args[2]
            sigma == call.args[3]
        IN  /\ (sigma <= 0 => Ret = None)
            /\ (sigma > 0 =>
                    /\ Ret # None
                    /\ 2 * Abs(Val(Ret) * sigma - (value - mean) * SCALE) <= sigma)

C8_Witness ==
    /\ Returned("compute_zscore")
    /\ call.args[3] = 0 /\ call.args[1] # call.args[2] /\ Ret = None

\* C9: compute_weighted_score returns delta x source x status x confidence x
\* precedent weight with the four looked-up weights; a novel event scores
\* exactly 1.2 times the otherwise identical known one; the documented
\* examples give -0.4 and +0.8.
C9_WeightedScore ==
    Returned("compute_weighted_score") =>
        LET delta == call.args[1]
            tenth == SCALE \div 10
            known == compute_weighted_score(delta, call.args[2], call.args[3], call.args[4], TRUE)
        IN  /\ Ret[2] = SOURCE_WEIGHTS[call.args[2]]
            /\ Ret[3] = STATUS_WEIGHTS[call.args[3]]
            /\ Ret[4] = CONFIDENCE_WEIGHTS[call.args[4]]
            /\ Ret[5] = (IF call.args[5] THEN SCALE ELSE 12 * tenth)
            /\ Ret[1] = delta * (Ret[2] \div tenth) * (Ret[3] \div tenth)
                              * (Ret[4] \div tenth) * (Ret[5] \div tenth)
            /\ (~call.args[5] => 10 * Ret[1] = 12 * known[1])
            /\ (call.args = <<-1, "Primary", "Draft", "High", TRUE>> => Ret[1] = -4 * tenth)
            /\ (call.args = <<1, "Logistics", "Enforced", "High", TRUE>> => Ret[1] = 8 * tenth)

C9_Witness ==
    /\ Returned("compute_weighted_score")
    /\ call.args = <<1, "Market", "Announced", "Medium", FALSE>>
    /\ Ret[1] = 4116

\* C10: for a non-empty event list with nonzero total |weighted_score| each of
\* the three mappings of compute_attribution sums to 1; for an empty list or
\* one whose scores are all zero the three mappings are empty.
RECURSIVE SumOver(_, _, _)
SumOver(m, keys, D) ==
    IF keys = {} THEN 0
    ELSE LET k == CHOOSE x \in keys : TRUE
         IN  m[k][1] * (D \div m[k][2]) + SumOver(m, keys \ {k}, D)

RECURSIVE Factorial(_)
Factorial(n) == IF n <= 1 THEN 1 ELSE n * Factorial(n - 1)

\* the fractions of m add up to one; D is a common denominator
SumsToOne(m, D) ==
    /\ \A k \in DOMAIN m : m[k][2] > 0 /\ D % m[k][2] = 0
    /\ SumOver(m, DOMAIN m, D) = D

RECURSIVE MaxPieces(_)
MaxPieces(evs) == IF evs = <<>> THEN 1 ELSE Max(Len(Pathways(Head(evs))), MaxPieces(Tail(evs)))

AllZero(evs) == \A i \in 1..Len(evs) : evs[i].weighted_score = 0

C10_AttributionSumsToOne ==
    Returned("compute_attribution") =>
        LET evs == call.args[1]
            D == SumAbs(evs) * Factorial(MaxPieces(evs))
        IN  IF AllZero(evs)
            THEN Ret = [source_layer |-> EmptyMap, impact_pathway |-> EmptyMap,
                        jurisdiction |-> EmptyMap]
            ELSE /\ SumsToOne(Ret.source_layer, D)
                 /\ SumsToOne(Ret.impact_pathway, D)
                 /\ SumsToOne(Ret.jurisdiction, D)

C10_Witness ==
    /\ Returned("compute_attribution")
    /\ Len(call.args[1]) = 3
    /\ ~AllZero(call.args[1])
    /\ Cardinality(DOMAIN Ret.impact_pathway) >= 3
    /\ \E k \in DOMAIN Ret.impact_pathway : Ret.impact_pathway[k][2] > 1

RECURSIVE SeqSum(_)
SeqSum(s) == IF s = <<>> THEN 0 ELSE Head(s) + SeqSum(Tail(s))

\* the sum of |weighted_score| over the events whose field has the value k
WholeScores(evs, field, k) ==
    SeqSum([i \in 1..Len(evs) |->
               IF evs[i][field] = k THEN Abs(evs[i].weighted_score) ELSE 0])

\* how many of the semicolon-separated tags of e are p
TagCount(e, p) == Cardinality({j \in 1..Len(Pathways(e)) : Pathways(e)[j] = p})

\* L times the sum over the events of |weighted_score| / n for each of the
\* event's n tags that is p; L is a common multiple of the tag counts
TagShares(evs, p, L) ==
    SeqSum([i \in 1..Len(evs) |->
               Abs(evs[i].weighted_score) * TagCount(evs[i], p) * (L \div Len(Pathways(evs[i])))])

\* C11: an event adds its whole |weighted_score| to the bucket of its
\* source_layer and to the bucket of its jurisdiction, and |weighted_score| / n
\* to the bucket of each of its n semicolon-separated pathway tags; a mapping
\* holds each bucket's sum divided by the total.
C11_AttributionContributions ==
    (Returned("compute_attribution") /\ ~AllZero(call.args[1])) =>
        LET evs == call.args[1]
            total == SumAbs(evs)
            L == Factorial(MaxPieces(evs))
            idx == 1..Len(evs)
            tags == UNION {{Pathways(evs[i])[j] : j \in 1..Len(Pathways(evs[i]))} : i \in idx}
        IN  /\ DOMAIN Ret.source_layer = {evs[i].source_layer : i \in idx}
            /\ \A k \in DOMAIN Ret.source_layer :
                  Ret.source_layer[k] = Rat(WholeScores(evs, "source_layer", k), total)
            /\ DOMAIN Ret.jurisdiction = {evs[i].jurisdiction : i \in idx}
            /\ \A k \in DOMAIN Ret.jurisdiction :
                  Ret.jurisdiction[k] = Rat(WholeScores(evs, "jurisdiction", k), total)
            /\ DOMAIN Ret.impact_pathway = tags
            /\ \A p \in tags :
                  Ret.impact_pathway[p] = Rat(TagShares(evs, p, L), total * L)

C11_Witness ==
    /\ Returned("compute_attribution")
    /\ Len(call.args[1]) = 2
    /\ \E i, j \in 1..2 :
          /\ i # j
          /\ Len(Pathways(call.args[1][i])) = 3 /\ call.args[1][i].weighted_score # 0
          /\ Len(Pathways(call.args[1][j])) = 2 /\ call.args[1][j].weighted_score # 0
          /\ call.args[1][i].jurisdiction = call.args[1][j].jurisdiction

----------------------------------------------------------------------------
(* src/pipeline/cusum.py *)

CUSUMState(upper, lower) == [upper |-> upper, lower |-> lower]

\* CUSUMDetector.__init__
CUSUMDetector(k, h) == [k |-> k, h |-> h, upper |-> 0, lower |-> 0]

CUSUMDetector_update_ge(d, z_score) ==
    LET upper == Max(0, d.upper + z_score - d.k)
        lower == Min(0, d.lower + z_score + d.k)
    IN  [det |-> [d EXCEPT !.upper = upper, !.lower = lower],
         alarm |-> (upper >= d.h \/ Abs(lower) >= d.h)]

CUSUMDetector_update_autoreset(d, z_score) ==
    LET upper == Max(0, (IF d.upper > d.h THEN 0 ELSE d.upper) + z_score - d.k)
        lower == Min(0, (IF Abs(d.lower) > d.h THEN 0 ELSE d.lower) + z_score + d.k)
    IN  [det |-> [d EXCEPT !.upper = upper, !.lower = lower],
         alarm |-> (upper > d.h \/ Abs(lower) > d.h)]

CUSUMDetector_update_nofloor(d, z_score) ==
    LET upper == d.upper + z_score - d.k
        lower == d.lower + z_score + d.k
    IN  [det |-> [d EXCEPT !.upper = upper, !.lower = lower],
         alarm |-> (upper > d.h \/ Abs(lower) > d.h)]

CUSUMDetector_update_nok(d, z_score) ==
    LET upper == Max(0, d.upper + z_score)
        lower == Min(0, d.lower + z_score)
    IN  [det |-> [d EXCEPT !.upper = upper, !.lower = lower],
         alarm |-> (upper > d.h \/ Abs(lower) > d.h)]

CUSUMDetector_update_signslip(d, z_score) ==
    LET upper == Max(0, d.upper + z_score - d.k)
        lower == Min(0, d.lower + z_score - d.k)
    IN  [det |-> [d EXCEPT !.upper = upper, !.lower = lower],
         alarm |-> (upper > d.h \/ Abs(lower) > d.h)]

\* CUSUMDetector.update: the detector after the call and the alarm it returns
CUSUMDetector_update(d, z_score) ==
    LET upper == Max(0, d.upper + z_score - d.k)
        lower == Min(0, d.lower + z_score + d.k)
    IN  [det |-> [d EXCEPT !.upper = upper, !.lower = lower],
         alarm |-> (upper > d.h \/ Abs(lower) > d.h)]

CUSUMDetector_reset_upperonly(d) == [d EXCEPT !.upper = 0]

\* CUSUMDetector.reset
CUSUMDetector_reset(d) == [d EXCEPT !.upper = 0, !.lower = 0]

----------------------------------------------------------------------------
(* src/pipeline/ewma.py *)

\* EWMABaseline.__init__
EWMABaseline(lam) == [lam |-> lam, mean |-> None, variance |-> None]

EWMABaseline_update_forgets(b, x) ==
    IF IsNone(b.mean)
    THEN [base |-> [b EXCEPT !.mean = Some(x), !.variance = Some(0)], ret |-> <<x, 0>>]
    ELSE LET mean == FMul(b.lam, x) + FMul(SCALE - b.lam, Val(b.mean))
             variance == FMul(b.lam, FMul(x - mean, x - mean))
                         + FMul(SCALE - b.lam, Val(b.variance))
             sigma == IF variance > 0 THEN FSqrt(variance) ELSE 0
         IN  [base |-> IF variance > 0
                       THEN [b EXCEPT !.mean = Some(mean), !.variance = Some(variance)]
                       ELSE [b EXCEPT !.mean = None, !.variance = None],
              ret |-> <<mean, sigma>>]

EWMABaseline_update_swapped(b, x) ==
    IF IsNone(b.mean)
    THEN [base |-> [b EXCEPT !.mean = Some(x), !.variance = Some(0)], ret |-> <<x, 0>>]
    ELSE LET mean == FMul(SCALE - b.lam, x) + FMul(b.lam, Val(b.mean))
             variance == FMul(b.lam, FMul(x - mean, x - mean))
                         + FMul(SCALE - b.lam, Val(b.variance))
             sigma == IF variance > 0 THEN FSqrt(variance) ELSE 0
         IN  [base |-> [b EXCEPT !.mean = Some(mean), !.variance = Some(variance)],
              ret |-> <<mean, sigma>>]

EWMABaseline_update_zeroinit(b, x) ==
    LET prev_mean == IF IsNone(b.mean) THEN 0 ELSE Val(b.mean)
        prev_var == IF IsNone(b.variance) THEN 0 ELSE Val(b.variance)
        mean == FMul(b.lam, x) + FMul(SCALE - b.lam, prev_mean)
        variance == FMul(b.lam, FMul(x - mean, x - mean)) + FMul(SCALE - b.lam, prev_var)
        sigma == IF variance > 0 THEN FSqrt(variance) ELSE 0
    IN  [base |-> [b EXCEPT !.mean = Some(mean), !.variance = Some(variance)],
         ret |-> <<mean, sigma>>]

EWMABaseline_update_oldmean(b, x) ==
    IF IsNone(b.mean)
    THEN [base |-> [b EXCEPT !.mean = Some(x), !.variance = Some(0)], ret |-> <<x, 0>>]
    ELSE LET mean == FMul(b.lam, x) + FMul(SCALE - b.lam, Val(b.mean))
             variance == FMul(b.lam, FMul(x - Val(b.mean), x - Val(b.mean)))
                         + FMul(SCALE - b.lam, Val(b.variance))
             sigma == IF variance > 0 THEN FSqrt(variance) ELSE 0
         IN  [base |-> [b EXCEPT !.mean = Some(mean), !.variance = Some(variance)],
              ret |-> <<mean, sigma>>]

EWMABaseline_update_decayall(b, x) ==
    IF IsNone(b.mean)
    THEN [base |-> [b EXCEPT !.mean = Some(x), !.variance = Some(0)], ret |-> <<x, 0>>]
    ELSE LET mean == FMul(b.lam, x) + FMul(SCALE - b.lam, Val(b.mean))
             variance == FMul(SCALE - b.lam,
                              FMul(b.lam, FMul(x - mean, x - mean)) + Val(b.variance))
             sigma == IF variance > 0 THEN FSqrt(variance) ELSE 0
         IN  [base |-> [b EXCEPT !.mean = Some(mean), !.variance = Some(variance)],
              ret |-> <<mean, sigma>>]

\* EWMABaseline.update: the baseline after the call and the (mean, sigma) it returns
EWMABaseline_update(b, x) ==
    IF IsNone(b.mean)
    THEN [base |-> [b EXCEPT !.mean = Some(x), !.variance = Some(0)], ret |-> <<x, 0>>]
    ELSE LET mean == FMul(b.lam, x) + FMul(SCALE - b.lam, Val(b.mean))
             variance == FMul(b.lam, FMul(x - mean, x - mean))
                         + FMul(SCALE - b.lam, Val(b.variance))
             sigma == IF variance > 0 THEN FSqrt(variance) ELSE 0
         IN  [base |-> [b EXCEPT !.mean = Some(mean), !.variance = Some(variance)],
              ret |-> <<mean, sigma>>]

----------------------------------------------------------------------------
(* SpecCusum: one CUSUMDetector object driven by update and reset *)

MaxCusumUpdates == 6

CusumParams == {<<cusum_k, cusum_h>>, <<SCALE, 3 * SCALE>>, <<0, 2 * SCALE>>}
CusumZs == {-2 * SCALE, -15 * (SCALE \div 10), -5 * (SCALE \div 10), 0,
            3 * (SCALE \div 10), 5 * (SCALE \div 10), 15 * (SCALE \div 10), 2 * SCALE}

\* what the log keeps of the updates since the construction or the last reset:
\* their number, the least and the greatest z fed, whether one of them
\* alarmed on the upper (lower) side, and whether since that alarm every z
\* was >= k (<= -k)
NoHistory ==
    [since |-> 0, zmin |-> None, zmax |-> None,
     upEver |-> FALSE, upHeld |-> FALSE, loEver |-> FALSE, loHeld |-> FALSE]

History(hist, d, z, r) ==
    LET up == r.alarm /\ r.det.upper > d.h
        lo == r.alarm /\ -r.det.lower > d.h
    IN  [since |-> hist.since + 1,
         zmin |-> IF hist.zmin = None THEN Some(z) ELSE Some(Min(Val(hist.zmin), z)),
         zmax |-> IF hist.zmax = None THEN Some(z) ELSE Some(Max(Val(hist.zmax), z)),
         upEver |-> hist.upEver \/ up,
         upHeld |-> up \/ (hist.upHeld /\ z >= d.k),
         loEver |-> hist.loEver \/ lo,
         loHeld |-> lo \/ (hist.loHeld /\ z <= -d.k)]

InitCusum ==
    /\ \E p \in CusumParams : det = CUSUMDetector(p[1], p[2])
    /\ detLog = [op |-> "init", n |-> 0, hist |-> NoHistory]
    /\ call = NoCall /\ base = NoBase /\ baseLog = NoBaseLog
    /\ NoRuns

DetUpdate(z) ==
    /\ detLog.n < MaxCusumUpdates
    /\ LET r == CUSUMDetector_update(det, z)
       IN  /\ det' = r.det
           /\ detLog' = [op |-> "update", n |-> detLog.n + 1, z |-> z,
                         before |-> CUSUMState(det.upper, det.lower),
                         params |-> <<det.k, det.h>>, alarm |-> r.alarm,
                         prev |-> detLog.hist, hist |-> History(detLog.hist, det, z, r)]
    /\ UNCHANGED <<call, base, baseLog, runVars>>

DetReset ==
    /\ det' = CUSUMDetector_reset(det)
    /\ detLog' = [op |-> "reset", n |-> detLog.n,
                  before |-> CUSUMState(det.upper, det.lower), params |-> <<det.k, det.h>>,
                  hist |-> NoHistory]
    /\ UNCHANGED <<call, base, baseLog, runVars>>

NextCusum == (\E z \in CusumZs : DetUpdate(z)) \/ DetReset

SpecCusum == InitCusum /\ [][NextCusum]_vars

\* C2: update(z) sets upper to max(0, upper_prev + z - k) and lower to
\* min(0, lower_prev + z + k), both from the state before the call, and
\* returns alarm = (upper > h or |lower| > h) on the state after it, so an
\* accumulator of magnitude exactly h does not alarm.
C2_CusumUpdate ==
    detLog.op = "update" =>
        /\ det.upper = Max(0, detLog.before.upper + detLog.z - det.k)
        /\ det.lower = Min(0, detLog.before.lower + detLog.z + det.k)
        /\ detLog.alarm = (det.upper > det.h \/ -det.lower > det.h)
        /\ (det.upper <= det.h /\ det.lower >= -det.h => ~detLog.alarm)

C2_Witness ==
    /\ detLog.op = "update"
    /\ det.h = cusum_h /\ det.upper = det.h /\ detLog.before.upper > 0
    /\ ~detLog.alarm

\* C16 as stated: once an update since the construction or the last reset
\* alarmed on the upper side, every later update with z >= k alarms, whatever
\* was fed in between (and the same on the lower side with z <= -k).
C16_AlarmAfterAnyEarlierAlarm ==
    detLog.op = "update" =>
        /\ (detLog.prev.upEver /\ detLog.z >= det.k => detLog.alarm)
        /\ (detLog.prev.loEver /\ detLog.z <= -det.k => detLog.alarm)

\* C16: the detector never resets itself on alarm: after an update that
\* alarmed on the upper side, an update with z >= k alarms again, on the upper
\* side, as long as every update since that alarm had z >= k (and the same on
\* the lower side with z <= -k), until reset() is called.
C16_AlarmPersistsWhileShiftHolds ==
    detLog.op = "update" =>
        /\ (detLog.prev.upHeld /\ detLog.z >= det.k =>
                detLog.alarm /\ det.upper > det.h /\ det.upper >= detLog.before.upper)
        /\ (detLog.prev.loHeld /\ detLog.z <= -det.k =>
                detLog.alarm /\ -det.lower > det.h /\ det.lower <= detLog.before.lower)

C16_Witness ==
    /\ detLog.op = "update"
    /\ detLog.params = <<cusum_k, cusum_h>>
    /\ detLog.prev.upHeld /\ detLog.z = det.k
    /\ detLog.alarm /\ det.upper = detLog.before.upper

\* C17: reset() leaves upper = 0 and lower = 0 whatever the state before it,
\* and leaves k and h as they were.
C17_ResetClearsAccumulators ==
    detLog.op = "reset" =>
        /\ det.upper = 0 /\ det.lower = 0
        /\ <<det.k, det.h>> = detLog.params

C17_Witness ==
    /\ detLog.op = "reset"
    /\ -detLog.before.lower > det.h /\ detLog.before.upper > 0
    /\ det.upper = 0 /\ det.lower = 0

\* C18: with the default k = 0.5 and h = 4.5, feeding z = 1.5 repeatedly from
\* (0, 0) raises upper by exactly 1.0 per update and leaves lower at 0; the
\* first four updates do not alarm, the fifth reaches 5.0 > 4.5 and alarms.
C18_DefaultRamp ==
    (/\ detLog.op = "update"
     /\ detLog.params = <<cusum_k, cusum_h>>
     /\ detLog.hist.zmin = Some((3 * SCALE) \div 2)
     /\ detLog.hist.zmax = Some((3 * SCALE) \div 2)
     /\ detLog.hist.since <= 5) =>
        /\ det.upper = detLog.hist.since * SCALE
        /\ det.upper = detLog.before.upper + SCALE
        /\ det.lower = 0
        /\ detLog.alarm = (detLog.hist.since = 5)
        /\ (detLog.hist.since = 5 => det.upper = 5 * SCALE /\ det.upper > cusum_h)

C18_Witness ==
    /\ detLog.op = "update"
    /\ detLog.params = <<cusum_k, cusum_h>>
    /\ detLog.hist.zmin = Some((3 * SCALE) \div 2)
    /\ detLog.hist.zmax = Some((3 * SCALE) \div 2)
    /\ detLog.hist.since = 5
    /\ detLog.alarm /\ det.upper = 5 * SCALE

\* C19: for k > 0 and h > 0, as long as every z fed since (0, 0) lies in
\* [-k, k], no update alarms and both accumulators stay at 0.
C19_DeadZone ==
    (/\ detLog.op = "update"
     /\ det.k > 0 /\ det.h > 0
     /\ Val(detLog.hist.zmin) >= -det.k
     /\ Val(detLog.hist.zmax) <= det.k) =>
        /\ det.upper = 0 /\ det.lower = 0
        /\ ~detLog.alarm

C19_Witness ==
    /\ detLog.op = "update"
    /\ det.k > 0 /\ det.h > 0
    /\ detLog.hist.since >= 3
    /\ detLog.hist.zmin = Some(-det.k) /\ detLog.hist.zmax = Some(det.k)
    /\ det.upper = 0 /\ det.lower = 0 /\ ~detLog.alarm

----------------------------------------------------------------------------
(* SpecEwma: one EWMABaseline object driven by update *)

MaxEwmaUpdates == 4

EwmaLams == {ewma_lambda_rpi, SCALE \div 10, SCALE \div 2}
EwmaXs == {-4 * (SCALE \div 10), 0, SCALE, 2 * SCALE, 10 * SCALE}

InitEwma ==
    /\ \E lam \in EwmaLams : base = EWMABaseline(lam)
    /\ baseLog = [op |-> "init", n |-> 0]
    /\ call = NoCall /\ det = NoDet /\ detLog = NoDetLog
    /\ NoRuns

BaseUpdate(x) ==
    /\ baseLog.n < MaxEwmaUpdates
    /\ LET r == EWMABaseline_update(base, x)
       IN  /\ base' = r.base
           /\ baseLog' = [op |-> "update", n |-> baseLog.n + 1, x |-> x,
                          before |-> base, ret |-> r.ret]
    /\ UNCHANGED <<call, det, detLog, runVars>>

NextEwma == \E x \in EwmaXs : BaseUpdate(x)

SpecEwma == InitEwma /\ [][NextEwma]_vars

\* C6: while tracking, update(x) sets mean to lam*x + (1-lam)*mean_prev, then
\* variance to lam*(x - mean)^2 + (1-lam)*variance_prev with the mean just
\* computed, and returns (mean, sigma), sigma the square root of the variance
\* when it is positive and 0 otherwise.
C6_EwmaTrackingUpdate ==
    (baseLog.op = "update" /\ ~IsNone(baseLog.before.mean)) =>
        LET lam == baseLog.before.lam
            x == baseLog.x
            mean == Val(base.mean)
            variance == Val(base.variance)
            sigma == baseLog.ret[2]
        IN  /\ base.lam = lam
            /\ mean = FMul(lam, x) + FMul(SCALE - lam, Val(baseLog.before.mean))
            /\ variance = FMul(lam, FMul(x - mean, x - mean))
                          + FMul(SCALE - lam, Val(baseLog.before.variance))
            /\ baseLog.ret[1] = mean
            \* sigma * sigma <= variance * SCALE < (sigma + 1) * (sigma + 1)
            /\ (variance > 0 =>
                    /\ sigma > 0
                    /\ sigma <= ScaledQuot(variance, sigma)
                    /\ sigma + 1 > ScaledQuot(variance, sigma + 1))
            /\ (variance <= 0 => sigma = 0)

C6_Witness ==
    /\ baseLog.op = "update" /\ baseLog.n >= 3
    /\ ~IsNone(baseLog.before.mean)
    /\ Val(baseLog.before.variance) > 0
    /\ baseLog.x # Val(baseLog.before.mean)
    /\ baseLog.ret[2] > 0

\* C7: the first update(x) of an uninitialized baseline returns exactly
\* (x, 0.0) and leaves mean = x, variance = 0, whatever lam is.
C7_EwmaFirstUpdate ==
    (baseLog.op = "update" /\ IsNone(baseLog.before.mean)) =>
        /\ baseLog.ret = <<baseLog.x, 0>>
        /\ base.mean = Some(baseLog.x)
        /\ base.variance = Some(0)
        /\ base.lam = baseLog.before.lam

C7_Witness ==
    /\ baseLog.op = "update" /\ baseLog.n = 1
    /\ IsNone(baseLog.before.mean) /\ IsNone(baseLog.before.variance)
    /\ baseLog.x = 10 * SCALE /\ base.lam = ewma_lambda_rpi
    /\ base.mean = Some(10 * SCALE)

----------------------------------------------------------------------------
(* SpecConverge: one EWMABaseline object initialised by a first update and *)
(* then fed one constant value, as test_ewma_converges_toward_new_value    *)
(* does                                                                    *)

MaxConvergeUpdates == 101   \* the initialising update and 100 more

ConvergeLams == {SCALE \div 10, ewma_lambda_rpi, SCALE \div 2}
ConvergeStarts == {0, 2 * SCALE}
ConvergeValues == {10 * SCALE, 0, -4 * (SCALE \div 10)}

InitConverge ==
    /\ \E lam \in ConvergeLams, start \in ConvergeStarts, v \in ConvergeValues :
          /\ start # v
          /\ base = EWMABaseline(lam)
          /\ baseLog = [op |-> "init", n |-> 0, start |-> start, v |-> v]
    /\ call = NoCall /\ det = NoDet /\ detLog = NoDetLog
    /\ NoRuns

\* ewma.update(start) on the fresh object
SeedUpdate ==
    /\ baseLog.n = 0
    /\ LET r == EWMABaseline_update(base, baseLog.start)
       IN  /\ base' = r.base
           /\ baseLog' = [op |-> "update", n |-> 1, x |-> baseLog.start, before |-> base,
                          ret |-> r.ret, start |-> baseLog.start, v |-> baseLog.v]
    /\ UNCHANGED <<call, det, detLog, runVars>>

\* ewma.update(v), again and again
FeedConstant ==
    /\ baseLog.n >= 1 /\ baseLog.n < MaxConvergeUpdates
    /\ LET r == EWMABaseline_update(base, baseLog.v)
       IN  /\ base' = r.base
           /\ baseLog' = [op |-> "update", n |-> baseLog.n + 1, x |-> baseLog.v, before |-> base,
                          ret |-> r.ret, start |-> baseLog.start, v |-> baseLog.v]
    /\ UNCHANGED <<call, det, detLog, runVars>>

NextConverge == SeedUpdate \/ FeedConstant

SpecConverge == InitConverge /\ [][NextConverge]_vars

\* C24: every update with the constant v while tracking leaves |mean - v| at
\* (1 - lam) times what it was, to the resolution of the arithmetic, and never
\* larger than it was; with lam = 0.1, initial mean 0 and v = 10 the mean
\* returned by the 100th such update is within 0.1 of v.
C24_ConvergesToConstant ==
    (baseLog.op = "update" /\ baseLog.n >= 2) =>
        LET before == Abs(Val(baseLog.before.mean) - baseLog.v)
            after == Abs(Val(base.mean) - baseLog.v)
        IN  /\ after <= before
            /\ Abs(after - FMul(SCALE - base.lam, before)) <= 1
            /\ after < before \/ before * base.lam < SCALE
            /\ baseLog.ret[1] = Val(base.mean)
            /\ (/\ base.lam = SCALE \div 10 /\ baseLog.start = 0
                /\ baseLog.v = 10 * SCALE /\ baseLog.n = 101) =>
                   after <= SCALE \div 10

C24_Witness ==
    /\ baseLog.op = "update" /\ baseLog.n = 101
    /\ base.lam = SCALE \div 10 /\ baseLog.start = 0 /\ baseLog.v = 10 * SCALE
    /\ Abs(baseLog.ret[1] - 10 * SCALE) <= SCALE \div 10
    /\ baseLog.ret[1] # 10 * SCALE

----------------------------------------------------------------------------
(* scripts/run_pipeline.py: the pieces of run_pipeline.  Raw totals are sums *)
(* of integer deltas and stay integers; weighted totals are fixed-point.     *)
(* A date is a day number; a row's primary key is modelled by its ordinal    *)
(* among the rows of the same table that share its upsert key.               *)

\* table trade_lanes as src/db/seed.py leaves it
TradeLanes == {[id |-> 1, name |-> "UK-India"]}

\* line 35
WeekEnd(week_start) == week_start + 4

FindLane_fallback(lane_name) ==
    LET found == {l \in TradeLanes : l.name = lane_name}
    IN  IF found = {} THEN TradeLanes ELSE found

\* lines 42-45
FindLane(lane_name) == {l \in TradeLanes : l.name = lane_name}

\* lines 51-58
SelectEvents(lane_id, week_start, week_end) ==
    SelectSeq(events, LAMBDA e : /\ e.trade_lane_id = lane_id
                                 /\ e.date_observed >= week_start
                                 /\ e.date_observed <= week_end)

\* lines 66-72
ZeroTotals ==
    [rpi_total |-> 0, lsi_total |-> 0, cpi_total |-> 0,
     rpi_weighted |-> 0, lsi_weighted |-> 0, cpi_weighted |-> 0,
     attribution_data |-> <<>>, raised |-> FALSE]

\* table.get(key, 1.0)
WeightOrOne(table, key) == IF key \in DOMAIN table THEN table[key] ELSE SCALE

RECURSIVE ScoreEvents_default(_, _)
ScoreEvents_default(evs, acc) ==
    IF evs = <<>> THEN acc
    ELSE LET event == Head(evs)
             score == FMul(FMul(FMul(event.index_delta * WeightOrOne(SOURCE_WEIGHTS, event.source_layer),
                                     WeightOrOne(STATUS_WEIGHTS, event.event_status)),
                                WeightOrOne(CONFIDENCE_WEIGHTS, event.confidence_level)),
                           WeightOrOne(PRECEDENT_WEIGHTS, event.historical_precedent))
             a1 == IF event.index_impact = "RPI"
                   THEN [acc EXCEPT !.rpi_total = @ + event.index_delta, !.rpi_weighted = @ + score]
                   ELSE IF event.index_impact = "LSI"
                   THEN [acc EXCEPT !.lsi_total = @ + event.index_delta, !.lsi_weighted = @ + score]
                   ELSE IF event.index_impact = "CPI"
                   THEN [acc EXCEPT !.cpi_total = @ + event.index_delta, !.cpi_weighted = @ + score]
                   ELSE acc
             a2 == [a1 EXCEPT !.attribution_data = Append(@,
                         [weighted_score |-> score, source_layer |-> event.source_layer,
                          impact_pathway |-> event.impact_pathway,
                          jurisdiction |-> event.jurisdiction])]
         IN  ScoreEvents_default(Tail(evs), a2)

RECURSIVE ScoreEvents_elif(_, _)
ScoreEvents_elif(evs, acc) ==
    IF evs = <<>> THEN acc
    ELSE IF compute_weighted_score_raises(Head(evs).source_layer, Head(evs).event_status,
                Head(evs).confidence_level, Head(evs).historical_precedent)
    THEN [acc EXCEPT !.raised = TRUE]
    ELSE LET event == Head(evs)
             score == compute_weighted_score(event.index_delta, event.source_layer,
                          event.event_status, event.confidence_level,
                          event.historical_precedent)[1]
             a1 == IF event.index_impact = "RPI"
                   THEN [acc EXCEPT !.rpi_total = @ + event.index_delta, !.rpi_weighted = @ + score]
                   ELSE IF event.index_impact = "LSI"
                   THEN [acc EXCEPT !.lsi_total = @ + event.index_delta, !.lsi_weighted = @ + score]
                   ELSE IF event.index_impact = "CPI"
                   THEN [acc EXCEPT !.lsi_total = @ + event.index_delta, !.cpi_weighted = @ + score]
                   ELSE acc
             a2 == [a1 EXCEPT !.attribution_data = Append(@,
                         [weighted_score |-> score, source_layer |-> event.source_layer,
                          impact_pathway |-> event.impact_pathway,
                          jurisdiction |-> event.jurisdiction])]
         IN  ScoreEvents_elif(Tail(evs), a2)

RECURSIVE ScoreEvents(_, _)
\* lines 74-98: the loop over the week's events; `raised` when
\* compute_weighted_score raised and the loop was left
ScoreEvents(evs, acc) ==
    IF evs = <<>> THEN acc
    ELSE IF compute_weighted_score_raises(Head(evs).source_layer, Head(evs).event_status,
                Head(evs).confidence_level, Head(evs).historical_precedent)
    THEN [acc EXCEPT !.raised = TRUE]
    ELSE LET event == Head(evs)
             score == compute_weighted_score(event.index_delta, event.source_layer,
                          event.event_status, event.confidence_level,
                          event.historical_precedent)[1]
             a1 == IF event.index_impact = "RPI"
                   THEN [acc EXCEPT !.rpi_total = @ + event.index_delta, !.rpi_weighted = @ + score]
                   ELSE IF event.index_impact = "LSI"
                   THEN [acc EXCEPT !.lsi_total = @ + event.index_delta, !.lsi_weighted = @ + score]
                   ELSE IF event.index_impact = "CPI"
                   THEN [acc EXCEPT !.cpi_total = @ + event.index_delta, !.cpi_weighted = @ + score]
                   ELSE acc
             a2 == [a1 EXCEPT !.attribution_data = Append(@,
                         [weighted_score |-> score, source_layer |-> event.source_layer,
                          impact_pathway |-> event.impact_pathway,
                          jurisdiction |-> event.jurisdiction])]
         IN  ScoreEvents(Tail(evs), a2)

\* lines 144-158
weighted_by_index(t) == [i \in IndexType |->
    CASE i = "RPI" -> t.rpi_weighted [] i = "LSI" -> t.lsi_weighted [] i = "CPI" -> t.cpi_weighted]
raw_by_index(t) == [i \in IndexType |->
    CASE i = "RPI" -> t.rpi_total [] i = "LSI" -> t.lsi_total [] i = "CPI" -> t.cpi_total]
lambda_by_index == [i \in IndexType |->
    CASE i = "RPI" -> settings.ewma_lambda_rpi
      [] i = "LSI" -> settings.ewma_lambda_lsi
      [] i = "CPI" -> settings.ewma_lambda_cpi]

\* lines 125-134 and 137-142: a lane_health row
LaneHealth(id, lane_id, week_start, week_end, t, combined, status) ==
    [id |-> id, trade_lane_id |-> lane_id, week_start |-> week_start, week_end |-> week_end,
     rpi_total |-> t.rpi_total, lsi_total |-> t.lsi_total, cpi_total |-> t.cpi_total,
     combined_total |-> combined, health_status |-> status]

\* lines 199-210 and 213-219: an index_snapshots row
IndexSnapshot(id, lane_id, date, idx_type, raw_total, weighted_total, c) ==
    [id |-> id, trade_lane_id |-> lane_id, date |-> date, index_type |-> idx_type,
     raw_total |-> raw_total, weighted_total |-> weighted_total,
     z_score |-> c.z_score, ewma_mean |-> Some(c.ewma_mean), ewma_sigma |-> Some(c.ewma_sigma),
     cusum_upper |-> c.cusum_upper, cusum_lower |-> c.cusum_lower]

\* lines 118-122: the lane_health rows of (lane, week_start)
HealthRows(table, lane_id, week_start) ==
    {r \in table : r.trade_lane_id = lane_id /\ r.week_start = week_start}

\* lines 191-196: the index_snapshots rows of (lane, week_end, idx_type)
SnapshotRows(table, lane_id, week_end, idx_type) ==
    {r \in table : r.trade_lane_id = lane_id /\ r.date = week_end /\ r.index_type = idx_type}

PreviousRows_anyindex(table, lane_id, idx_type, week_end) ==
    LET rows == {r \in table : /\ r.trade_lane_id = lane_id
                               /\ r.date < week_end}
    IN  IF rows = {} THEN {None}
        ELSE {Some(r) : r \in {r \in rows : \A q \in rows : q.date <= r.date}}

PreviousRows_le(table, lane_id, idx_type, week_end) ==
    LET rows == {r \in table : /\ r.trade_lane_id = lane_id
                               /\ r.index_type = idx_type
                               /\ r.date <= week_end}
    IN  IF rows = {} THEN {None}
        ELSE {Some(r) : r \in {r \in rows : \A q \in rows : q.date <= r.date}}

\* lines 161-169: the latest snapshot before week_end, None when there is none;
\* LIMIT 1 picks any of the rows that share the latest date
PreviousRows(table, lane_id, idx_type, week_end) ==
    LET rows == {r \in table : /\ r.trade_lane_id = lane_id
                               /\ r.index_type = idx_type
                               /\ r.date < week_end}
    IN  IF rows = {} THEN {None}
        ELSE {Some(r) : r \in {r \in rows : \A q \in rows : q.date <= r.date}}

LoadEwma_novariance(previous, lam) ==
    LET ewma == EWMABaseline(lam)
    IN  IF previous # None /\ Val(previous).ewma_mean # None
        THEN [ewma EXCEPT !.mean = Val(previous).ewma_mean, !.variance = Some(0)]
        ELSE ewma

\* lines 171-174
LoadEwma(previous, lam) ==
    LET ewma == EWMABaseline(lam)
    IN  IF previous # None /\ Val(previous).ewma_mean # None
        THEN LET sigma == IF Val(previous).ewma_sigma = None THEN 0
                          ELSE Val(Val(previous).ewma_sigma)
             IN  [ewma EXCEPT !.mean = Val(previous).ewma_mean,
                              !.variance = Some(FMul(sigma, sigma))]
        ELSE ewma

\* lines 183-185
LoadCusum(previous) ==
    LET detector == CUSUMDetector(settings.cusum_k, settings.cusum_h)
    IN  IF previous # None /\ Val(previous).cusum_upper # None /\ Val(previous).cusum_lower # None
        THEN [detector EXCEPT !.upper = Val(Val(previous).cusum_upper),
                              !.lower = Val(Val(previous).cusum_lower)]
        ELSE detector

IndexStep_everyindex(idx_type, previous, current_weighted) ==
    LET u == EWMABaseline_update(LoadEwma(previous, lambda_by_index[idx_type]), current_weighted)
        ewma_mean == u.ret[1]
        ewma_sigma == u.ret[2]
        z_score == compute_zscore(current_weighted, ewma_mean, ewma_sigma)
        detector == LoadCusum(previous)
        updated == z_score # None
        upd == CUSUMDetector_update(detector, Val(z_score))
    IN  [previous |-> previous,
         ewma_mean |-> ewma_mean, ewma_sigma |-> ewma_sigma, z_score |-> z_score,
         cusum_upper |-> IF updated THEN Some(upd.det.upper) ELSE None,
         cusum_lower |-> IF updated THEN Some(upd.det.lower) ELSE None,
         loaded |-> Some(CUSUMState(detector.upper, detector.lower)),
         updated |-> updated,
         alarm |-> IF updated THEN upd.alarm ELSE FALSE]

IndexStep_zfirst(idx_type, previous, current_weighted) ==
    LET u == EWMABaseline_update(LoadEwma(previous, lambda_by_index[idx_type]), current_weighted)
        ewma_mean == u.ret[1]
        ewma_sigma == u.ret[2]
        z_score == IF previous = None THEN Some(0)
                   ELSE compute_zscore(current_weighted, ewma_mean, ewma_sigma)
        detector == LoadCusum(previous)
        updated == idx_type = "RPI" /\ z_score # None
        upd == CUSUMDetector_update(detector, Val(z_score))
    IN  [previous |-> previous,
         ewma_mean |-> ewma_mean, ewma_sigma |-> ewma_sigma, z_score |-> z_score,
         cusum_upper |-> IF updated THEN Some(upd.det.upper) ELSE None,
         cusum_lower |-> IF updated THEN Some(upd.det.lower) ELSE None,
         loaded |-> IF idx_type = "RPI" THEN Some(CUSUMState(detector.upper, detector.lower)) ELSE None,
         updated |-> updated,
         alarm |-> IF updated THEN upd.alarm ELSE FALSE]

IndexStep_priorbaseline(idx_type, previous, current_weighted) ==
    LET loaded_ewma == LoadEwma(previous, lambda_by_index[idx_type])
        u == EWMABaseline_update(loaded_ewma, current_weighted)
        ewma_mean == u.ret[1]
        ewma_sigma == u.ret[2]
        z_score == IF IsNone(loaded_ewma.mean) THEN None
                   ELSE compute_zscore(current_weighted, Val(loaded_ewma.mean),
                                       Val(Val(previous).ewma_sigma))
        detector == LoadCusum(previous)
        updated == idx_type = "RPI" /\ z_score # None
        upd == CUSUMDetector_update(detector, Val(z_score))
    IN  [previous |-> previous,
         ewma_mean |-> ewma_mean, ewma_sigma |-> ewma_sigma, z_score |-> z_score,
         cusum_upper |-> IF updated THEN Some(upd.det.upper) ELSE None,
         cusum_lower |-> IF updated THEN Some(upd.det.lower) ELSE None,
         loaded |-> IF idx_type = "RPI" THEN Some(CUSUMState(detector.upper, detector.lower)) ELSE None,
         updated |-> updated,
         alarm |-> IF updated THEN upd.alarm ELSE FALSE]

\* lines 171-189: what one pass of the loop over idx_type computes
IndexStep(idx_type, previous, current_weighted) ==
    LET u == EWMABaseline_update(LoadEwma(previous, lambda_by_index[idx_type]), current_weighted)
        ewma_mean == u.ret[1]
        ewma_sigma == u.ret[2]
        z_score == compute_zscore(current_weighted, ewma_mean, ewma_sigma)
        detector == LoadCusum(previous)
        updated == idx_type = "RPI" /\ z_score # None
        upd == CUSUMDetector_update(detector, Val(z_score))
    IN  [previous |-> previous,
         ewma_mean |-> ewma_mean, ewma_sigma |-> ewma_sigma, z_score |-> z_score,
         cusum_upper |-> IF updated THEN Some(upd.det.upper) ELSE None,
         cusum_lower |-> IF updated THEN Some(upd.det.lower) ELSE None,
         loaded |-> IF idx_type = "RPI" THEN Some(CUSUMState(detector.upper, detector.lower)) ELSE None,
         updated |-> updated,
         alarm |-> IF updated THEN upd.alarm ELSE FALSE]

\* the ordinal that stands for a fresh primary key among rows
FreshId(rows) == 1 + Cardinality(rows)

UpsertHealth_skipempty(table, lane_id, week_start, week_end, t, combined, status) ==
    LET rows == HealthRows(table, lane_id, week_start)
    IN  IF t.attribution_data = <<>> THEN table
        ELSE IF rows = {}
        THEN table \cup {LaneHealth(1, lane_id, week_start, week_end, t, combined, status)}
        ELSE LET health_row == CHOOSE r \in rows : TRUE
             IN  (table \ {health_row})
                 \cup {LaneHealth(health_row.id, lane_id, week_start, week_end, t, combined, status)}

\* lines 118-142: select-then-insert-or-update of the lane_health row
UpsertHealth(table, lane_id, week_start, week_end, t, combined, status) ==
    LET rows == HealthRows(table, lane_id, week_start)
    IN  IF rows = {}
        THEN table \cup {LaneHealth(1, lane_id, week_start, week_end, t, combined, status)}
        ELSE LET health_row == CHOOSE r \in rows : TRUE
             IN  (table \ {health_row})
                 \cup {LaneHealth(health_row.id, lane_id, week_start, week_end, t, combined, status)}

UpsertSnapshot_dropslater(table, lane_id, week_end, idx_type, raw_total, weighted_total, c) ==
    LET kept == {r \in table : ~(/\ r.trade_lane_id = lane_id /\ r.index_type = idx_type
                                  /\ r.date > week_end)}
        rows == SnapshotRows(kept, lane_id, week_end, idx_type)
    IN  IF rows = {}
        THEN kept \cup {IndexSnapshot(1, lane_id, week_end, idx_type, raw_total, weighted_total, c)}
        ELSE LET snapshot == CHOOSE r \in rows : TRUE
             IN  (kept \ {snapshot})
                 \cup {IndexSnapshot(snapshot.id, lane_id, week_end, idx_type,
                                     raw_total, weighted_total, c)}

\* lines 191-219: select-then-insert-or-update of one index_snapshots row
UpsertSnapshot(table, lane_id, week_end, idx_type, raw_total, weighted_total, c) ==
    LET rows == SnapshotRows(table, lane_id, week_end, idx_type)
    IN  IF rows = {}
        THEN table \cup {IndexSnapshot(1, lane_id, week_end, idx_type, raw_total, weighted_total, c)}
        ELSE LET snapshot == CHOOSE r \in rows : TRUE
             IN  (table \ {snapshot})
                 \cup {IndexSnapshot(snapshot.id, lane_id, week_end, idx_type,
                                     raw_total, weighted_total, c)}

----------------------------------------------------------------------------
(* SpecPipeline: run_pipeline invoked again and again, one invocation at a *)
(* time, over events drawn at Init                                         *)

MaxWeeks == 3

Weeks == 1..MaxWeeks
\* the Monday of week w
WeekStart(w) == 7 * w

LaneNames == {"UK-India", "UK-Vietnam"}

Event(index_impact, index_delta, source_layer, event_status, confidence_level, historical_precedent, impact_pathway, jurisdiction) ==
    [trade_lane_id |-> 1, date_observed |-> 0,
     index_impact |-> index_impact, index_delta |-> index_delta,
     source_layer |-> source_layer, event_status |-> event_status,
     confidence_level |-> confidence_level, historical_precedent |-> historical_precedent,
     impact_pathway |-> impact_pathway, jurisdiction |-> jurisdiction]

E1 == Event("RPI", 1, "Primary", "Enforced", "High", TRUE, <<"M">>, "India")
E2 == Event("RPI", -1, "Primary", "Draft", "High", TRUE, <<"M", ";", "T">>, "India")
E3 == Event("LSI", 1, "Logistics", "Enforced", "High", TRUE, <<"T">>, "UK")
E4 == Event("CPI", 1, "Market", "Announced", "Medium", FALSE, <<"C">>, "Bilateral")

\* the events one week can hold
WeekPool == {<<>>, <<E1>>, <<E1, E1>>, <<E2, E3>>, <<E1, E3, E4, E1>>}

\* the events of week w, dated Monday to Friday
Dated(evs, w) == [i \in 1..Len(evs) |-> [evs[i] EXCEPT !.date_observed = WeekStart(w) + Min(i - 1, 4)]]

RECURSIVE Flatten(_, _)
Flatten(f, w) == IF w > MaxWeeks THEN <<>> ELSE Dated(f[w], w) \o Flatten(f, w + 1)

SettingsPool ==
    {Settings,
     [Settings EXCEPT !.ewma_lambda_rpi = SCALE \div 2, !.ewma_lambda_lsi = SCALE \div 2,
                      !.ewma_lambda_cpi = SCALE \div 2]}

InitPipeline ==
    /\ settings \in SettingsPool
    /\ \E f \in [Weeks -> WeekPool] : events = Flatten(f, 1)
    /\ snapshots = {} /\ health = {}
    /\ sess = <<>> /\ lastRun = NoLastRun
    /\ call = NoCall /\ det = NoDet /\ detLog = NoDetLog /\ base = NoBase /\ baseLog = NoBaseLog

\* run_pipeline(lane_name, week_start) from the session's opening to its commit
RunPipeline(lane_name, week_start) ==
    LET week_end == WeekEnd(week_start)
        lanes == FindLane(lane_name)
        log == [op |-> "run", lane_name |-> lane_name, week_start |-> week_start,
                week_end |-> week_end,
                again |-> (/\ lastRun.op = "run" /\ lastRun.result = "ok"
                           /\ lastRun.lane_name = lane_name
                           /\ lastRun.week_start = week_start),
                before |-> [snapshots |-> snapshots, health |-> health]]
    IN  /\ IF lanes = {}
           THEN /\ lastRun' = [result |-> "no_lane"] @@ log
                /\ UNCHANGED <<snapshots, health>>
           ELSE \E lane \in lanes :
                \E t \in {ScoreEvents(SelectEvents(lane.id, week_start, week_end), ZeroTotals)} :
                IF t.raised
                THEN \* the KeyError leaves the `async with`: nothing was added or committed
                     /\ lastRun' = [result |-> "raised"] @@ log
                     /\ UNCHANGED <<snapshots, health>>
                ELSE
                \E lh \in {compute_lane_health(t.rpi_total, t.lsi_total, t.cpi_total)} :
                \E pR \in PreviousRows(snapshots, lane.id, "RPI", week_end) :
                \E cR \in {IndexStep("RPI", pR, t.rpi_weighted)} :
                \E s1 \in {UpsertSnapshot(snapshots, lane.id, week_end, "RPI",
                                          t.rpi_total, t.rpi_weighted, cR)} :
                \E pL \in PreviousRows(s1, lane.id, "LSI", week_end) :
                \E cL \in {IndexStep("LSI", pL, t.lsi_weighted)} :
                \E s2 \in {UpsertSnapshot(s1, lane.id, week_end, "LSI",
                                          t.lsi_total, t.lsi_weighted, cL)} :
                \E pC \in PreviousRows(s2, lane.id, "CPI", week_end) :
                \E cC \in {IndexStep("CPI", pC, t.cpi_weighted)} :
                \E s3 \in {UpsertSnapshot(s2, lane.id, week_end, "CPI",
                                          t.cpi_total, t.cpi_weighted, cC)} :
                    \* scalar_one_or_none raises MultipleResultsFound on two rows
                    IF \/ Cardinality(HealthRows(health, lane.id, week_start)) > 1
                       \/ \E i \in IndexType :
                             Cardinality(SnapshotRows(snapshots, lane.id, week_end, i)) > 1
                    THEN /\ lastRun' = [result |-> "error"] @@ log
                         /\ UNCHANGED <<snapshots, health>>
                    ELSE /\ health' = UpsertHealth(health, lane.id, week_start, week_end,
                                                   t, lh[1], lh[2])
                         /\ snapshots' = s3
                         /\ lastRun' =
                              [result |-> "ok", lane_id |-> lane.id, totals |-> t,
                               combined |-> lh[1], health_status |-> lh[2],
                               \* line 225: whether compute_attribution is called
                               attributed |-> t.attribution_data # <<>>,
                               idx |-> [i \in IndexType |->
                                          CASE i = "RPI" -> cR [] i = "LSI" -> cL
                                            [] i = "CPI" -> cC]] @@ log
        /\ UNCHANGED <<objVars, settings, events, sess>>

NextPipeline == \E lane_name \in LaneNames, w \in Weeks : RunPipeline(lane_name, WeekStart(w))

SpecPipeline == InitPipeline /\ [][NextPipeline]_vars

RanOk == lastRun.op = "run" /\ lastRun.result = "ok"

\* lines 225-231: the attribution the run printed, None when it printed none
Attribution ==
    IF lastRun.attributed THEN Some(compute_attribution(lastRun.totals.attribution_data)) ELSE None

\* the row the last run left under its snapshot key
Written(idx_type) ==
    CHOOSE r \in SnapshotRows(snapshots, lastRun.lane_id, lastRun.week_end, idx_type) : TRUE

\* the accumulators a run loads from the snapshot it finds as the previous one
CarriedFrom(previous) == LET d == LoadCusum(previous) IN CUSUMState(d.upper, d.lower)

\* C3: when the RPI z-score of a period is undefined, the CUSUM state is left
\* unchanged: the accumulators the next period loads from this period's
\* snapshot equal the ones this period loaded, and no alarm fires.
C3_CusumUnchangedWhenZUndefined ==
    (RanOk /\ Written("RPI").z_score = None) =>
        /\ CarriedFrom(Some(Written("RPI"))) = CarriedFrom(lastRun.idx["RPI"].previous)
        /\ ~lastRun.idx["RPI"].updated
        /\ ~lastRun.idx["RPI"].alarm

C3_Witness ==
    /\ RanOk /\ Written("RPI").z_score = None
    /\ lastRun.idx["RPI"].previous # None
    /\ Val(lastRun.idx["RPI"].previous).date < lastRun.week_end
    /\ lastRun.totals.rpi_weighted # 0

\* C4: running run_pipeline again for the same (lane, week) over the same
\* events leaves one IndexSnapshot per (lane, index_type, week_end) and one
\* LaneHealth per (lane, week_start), every field as the first run left it.
C4_RerunIdempotent ==
    (RanOk /\ lastRun.again) =>
        /\ snapshots = lastRun.before.snapshots
        /\ health = lastRun.before.health
        /\ Cardinality(HealthRows(health, lastRun.lane_id, lastRun.week_start)) = 1
        /\ \A i \in IndexType :
              Cardinality(SnapshotRows(snapshots, lastRun.lane_id, lastRun.week_end, i)) = 1

C4_Witness ==
    /\ RanOk /\ lastRun.again
    /\ Written("RPI").z_score # None
    /\ Written("RPI").cusum_upper # None
    /\ Val(Written("RPI").cusum_upper) > 0
    /\ Written("LSI").weighted_total # 0

\* the events of the period the last run was asked for
PeriodEvents == SelectEvents(lastRun.lane_id, lastRun.week_start, lastRun.week_end)

\* C12: a period without events is not skipped: the run persists one
\* LaneHealth row with the three totals and the combined total 0 and status
\* STABLE, one IndexSnapshot per category with raw_total 0 and weighted_total
\* 0, and yields no attribution entry.
C12_EmptyPeriodPersisted ==
    (RanOk /\ PeriodEvents = <<>>) =>
        /\ \E r \in health :
              /\ HealthRows(health, lastRun.lane_id, lastRun.week_start) = {r}
              /\ r.rpi_total = 0 /\ r.lsi_total = 0 /\ r.cpi_total = 0
              /\ r.combined_total = 0 /\ r.health_status = "STABLE"
              /\ r.week_end = lastRun.week_end
        /\ \A i \in IndexType : \E r \in snapshots :
              /\ SnapshotRows(snapshots, lastRun.lane_id, lastRun.week_end, i) = {r}
              /\ r.raw_total = 0 /\ r.weighted_total = 0
        /\ \/ Attribution = None
           \/ /\ DOMAIN Val(Attribution).source_layer = {}
              /\ DOMAIN Val(Attribution).impact_pathway = {}
              /\ DOMAIN Val(Attribution).jurisdiction = {}

C12_Witness ==
    /\ RanOk /\ PeriodEvents = <<>> /\ ~lastRun.again
    /\ lastRun.idx["RPI"].previous # None
    /\ Val(lastRun.idx["RPI"].previous).weighted_total # 0
    /\ Written("RPI").ewma_mean # Some(0)

\* C15: every LaneHealth row holds, per category, the plain sum of index_delta
\* over the period's events of that category, combined_total the sum of the
\* three (every event counted once), and health_status the class of
\* combined_total under the configured thresholds.
C15_HealthRowFromRawTotals ==
    \A r \in health :
        LET evs == SelectEvents(r.trade_lane_id, r.week_start, r.week_end)
            Raw(i) == SeqSum([n \in 1..Len(evs) |->
                                IF evs[n].index_impact = i THEN evs[n].index_delta ELSE 0])
        IN  /\ r.week_end = WeekEnd(r.week_start)
            /\ r.rpi_total = Raw("RPI") /\ r.lsi_total = Raw("LSI") /\ r.cpi_total = Raw("CPI")
            /\ r.combined_total = r.rpi_total + r.lsi_total + r.cpi_total
            /\ r.combined_total = SeqSum([n \in 1..Len(evs) |-> evs[n].index_delta])
            /\ r.health_status =
                  (IF r.combined_total >= settings.lane_health_active THEN "ACTIVE"
                   ELSE IF r.combined_total >= settings.lane_health_watch THEN "WATCH"
                   ELSE "STABLE")

C15_Witness ==
    /\ RanOk
    /\ \E r \in HealthRows(health, lastRun.lane_id, lastRun.week_start) :
          /\ r.health_status = "WATCH" /\ r.cpi_total = 1 /\ r.rpi_total = 2
          /\ lastRun.totals.rpi_weighted + lastRun.totals.lsi_weighted
                + lastRun.totals.cpi_weighted < settings.lane_health_watch * SCALE

\* C20: CUSUM is applied to RPI only: every LSI or CPI IndexSnapshot has
\* cusum_upper and cusum_lower None, and a run neither loads nor advances a
\* CUSUM state for LSI or CPI.
C20_CusumOnlyForRpi ==
    /\ \A r \in snapshots :
          r.index_type # "RPI" => r.cusum_upper = None /\ r.cusum_lower = None
    /\ RanOk => \A i \in IndexType \ {"RPI"} :
          /\ lastRun.idx[i].loaded = None
          /\ ~lastRun.idx[i].updated
          /\ ~lastRun.idx[i].alarm
          /\ lastRun.idx[i].cusum_upper = None /\ lastRun.idx[i].cusum_lower = None

C20_Witness ==
    /\ RanOk
    /\ Written("LSI").z_score # None /\ Written("LSI").cusum_upper = None
    /\ lastRun.idx["LSI"].previous # None
    /\ Written("RPI").z_score # None /\ Written("RPI").cusum_upper # None

\* C21: within a run the steps of a category are EWMA update, then z-score,
\* then CUSUM update: the stored mean and sigma are the ones the update of the
\* loaded baseline with the period's weighted total returns, the stored z-score
\* is the period's weighted total against that post-update mean and sigma, and
\* the stored RPI accumulators are the loaded ones advanced by that z-score.
C21_EwmaThenZscoreThenCusum ==
    /\ \A r \in snapshots :
          r.z_score = (IF Val(r.ewma_sigma) <= 0 THEN None
                       ELSE Some(FDiv(r.weighted_total - Val(r.ewma_mean), Val(r.ewma_sigma))))
    /\ RanOk => \A i \in IndexType :
          LET w == Written(i)
              c == lastRun.idx[i]
              u == EWMABaseline_update(LoadEwma(c.previous, lambda_by_index[i]), w.weighted_total)
              before == CarriedFrom(c.previous)
          IN  /\ w.ewma_mean = Some(u.ret[1]) /\ w.ewma_sigma = Some(u.ret[2])
              /\ w.z_score = c.z_score
              /\ (i = "RPI" /\ w.z_score # None) =>
                    /\ w.cusum_upper =
                          Some(Max(0, before.upper + Val(w.z_score) - settings.cusum_k))
                    /\ w.cusum_lower =
                          Some(Min(0, before.lower + Val(w.z_score) + settings.cusum_k))

C21_Witness ==
    /\ RanOk /\ ~lastRun.again
    /\ lastRun.idx["RPI"].previous # None
    /\ Written("RPI").z_score # None
    /\ Val(Val(lastRun.idx["RPI"].previous).ewma_sigma) > 0
    /\ Written("RPI").z_score #
          compute_zscore(Written("RPI").weighted_total,
                         Val(Val(lastRun.idx["RPI"].previous).ewma_mean),
                         Val(Val(lastRun.idx["RPI"].previous).ewma_sigma))
    /\ Val(Written("RPI").cusum_upper) > 0

\* lines 160-219 for one idx_type: the rows a run over the period's events evs
\* and the snapshots table may leave under (lane, idx_type, week_end), the
\* primary key set aside
CategoryRows(evs, table, lane_id, week_end, idx_type) ==
    LET t == ScoreEvents(evs, ZeroTotals)
        current_weighted == weighted_by_index(t)[idx_type]
    IN  {IndexSnapshot(0, lane_id, week_end, idx_type, raw_by_index(t)[idx_type],
                       current_weighted, IndexStep(idx_type, previous, current_weighted)) :
            previous \in PreviousRows(table, lane_id, idx_type, week_end)}

\* the period's events without those of category j, and with those of
\* category j counted twice
WithoutCategory(evs, j) == SelectSeq(evs, LAMBDA ev : ev.index_impact # j)
TwiceCategory(evs, j) == evs \o SelectSeq(evs, LAMBDA ev : ev.index_impact = j)

\* C23: category state is private to its (lane, category) key: a run of the
\* same period over inputs that differ only in the events and the prior
\* snapshots of one category j writes, for each other category, the snapshot
\* the actual run wrote (raw_total, weighted_total, z_score, ewma_mean,
\* ewma_sigma and the cusum fields).
C23_CategoryIsolation ==
    RanOk => \A j \in IndexType : \A i \in IndexType \ {j} :
        LET others == {r \in lastRun.before.snapshots : r.index_type # j}
            w == [Written(i) EXCEPT !.id = 0]
        IN  /\ CategoryRows(WithoutCategory(PeriodEvents, j), others,
                            lastRun.lane_id, lastRun.week_end, i) = {w}
            /\ CategoryRows(TwiceCategory(PeriodEvents, j), others,
                            lastRun.lane_id, lastRun.week_end, i) = {w}

C23_Witness ==
    /\ RanOk /\ ~lastRun.again
    /\ lastRun.totals.rpi_weighted # 0 /\ lastRun.totals.lsi_weighted # 0
    /\ lastRun.totals.cpi_weighted # 0
    /\ \A i \in IndexType :
          /\ lastRun.idx[i].previous # None
          /\ Written(i).z_score # None
    /\ Val(lastRun.idx["RPI"].previous).ewma_mean # Val(lastRun.idx["LSI"].previous).ewma_mean
    /\ Written("RPI").cusum_upper # None

\* C25: a run of run_pipeline for (lane, week) creates or modifies only the
\* LaneHealth row keyed (lane, week_start) and the three IndexSnapshot rows
\* keyed (lane, index_type, week_end): every other row is as it was before the
\* run, snapshots of later periods included, and every row that existed
\* before the run still exists under its primary key.
C25_OnlyOwnRowsTouched ==
    lastRun.op = "run" =>
        IF RanOk
        THEN LET OwnS(r) == r.trade_lane_id = lastRun.lane_id /\ r.date = lastRun.week_end
                 OwnH(r) == /\ r.trade_lane_id = lastRun.lane_id
                            /\ r.week_start = lastRun.week_start
             IN  /\ {r \in snapshots : ~OwnS(r)} = {r \in lastRun.before.snapshots : ~OwnS(r)}
                 /\ {r \in health : ~OwnH(r)} = {r \in lastRun.before.health : ~OwnH(r)}
                 /\ Cardinality({r \in snapshots : OwnS(r)}) = 3
                 /\ Cardinality({r \in health : OwnH(r)}) = 1
                 /\ \A r \in lastRun.before.snapshots : \E q \in snapshots :
                       /\ q.id = r.id /\ q.trade_lane_id = r.trade_lane_id
                       /\ q.index_type = r.index_type /\ q.date = r.date
                 /\ \A r \in lastRun.before.health : \E q \in health :
                       /\ q.id = r.id /\ q.trade_lane_id = r.trade_lane_id
                       /\ q.week_start = r.week_start
        ELSE snapshots = lastRun.before.snapshots /\ health = lastRun.before.health

C25_Witness ==
    /\ RanOk
    /\ \E old \in lastRun.before.snapshots :
          /\ old.index_type = "RPI" /\ old.date = lastRun.week_end
          /\ old \notin snapshots
    /\ \E later \in snapshots :
          /\ later.index_type = "RPI" /\ later.date > lastRun.week_end
          /\ later \in lastRun.before.snapshots
          /\ later.ewma_mean # Some(later.weighted_total)

\* C28: a run that finds no earlier snapshot of a category stores ewma_mean =
\* weighted_total, ewma_sigma = 0 and no z_score, and for RPI makes no CUSUM
\* update and stores both CUSUM fields as absent; a run stores a z_score only
\* if the variance of its baseline after the update is strictly positive.
C28_FirstPeriodHasNoZscore ==
    RanOk => \A i \in IndexType :
        LET w == Written(i)
            c == lastRun.idx[i]
            u == EWMABaseline_update(LoadEwma(c.previous, lambda_by_index[i]), w.weighted_total)
        IN  /\ c.previous = None =>
                  /\ w.ewma_mean = Some(w.weighted_total)
                  /\ w.ewma_sigma = Some(0)
                  /\ w.z_score = None
                  /\ ~c.updated /\ ~c.alarm
                  /\ w.cusum_upper = None /\ w.cusum_lower = None
            /\ w.z_score # None =>
                  /\ c.previous # None
                  /\ Val(u.base.variance) > 0

C28_Witness ==
    /\ RanOk /\ ~lastRun.again
    /\ lastRun.idx["RPI"].previous = None
    /\ Written("RPI").weighted_total # 0
    /\ \E r \in snapshots : r.index_type = "RPI" /\ r.date > lastRun.week_end

\* lam * z^2 in the fixed-point arithmetic, multiplied so that no product leaves 32 bits
LamZSquared(lam, z) == FMul(FMul(lam, z), z)

\* what the square root and the quotient of compute_zscore may add to lam * z^2
\* at the resolution 1 / SCALE: half a percent
ZScoreSlack == SCALE \div 200

\* C29: in every run that commits, a tracking update (a prior snapshot row
\* exists) starts from a variance >= 0 and leaves a variance >=
\* lam * (x - mean)^2 with mean the post-update mean; hence every z-score that
\* is defined satisfies lam * z^2 <= 1 to the resolution of the arithmetic; and
\* with lam = 0.048, k = 0.5, h = 4.5 a CUSUM update that starts from the loaded
\* state (0, 0) returns no alarm and leaves both accumulators within h.
C29_ZscoreBoundedSoNoFirstAlarm ==
    RanOk => \A i \in IndexType :
        LET w == Written(i)
            c == lastRun.idx[i]
            lam == lambda_by_index[i]
            prior == LoadEwma(c.previous, lam)
            u == EWMABaseline_update(prior, w.weighted_total)
            d == w.weighted_total - u.ret[1]
        IN  /\ c.previous # None =>
                  /\ 0 < lam /\ lam < SCALE
                  /\ Val(prior.variance) >= 0
                  /\ Val(u.base.variance) >= FMul(lam, FMul(d, d))
                  /\ w.ewma_mean = Some(u.ret[1]) /\ w.ewma_sigma = Some(u.ret[2])
            /\ w.z_score # None =>
                  /\ w.z_score = compute_zscore(w.weighted_total, u.ret[1], u.ret[2])
                  /\ LamZSquared(lam, Val(w.z_score)) <= SCALE + ZScoreSlack
            /\ ( /\ i = "RPI" /\ c.updated
                 /\ c.loaded = Some(CUSUMState(0, 0))
                 /\ lam = ewma_lambda_rpi
                 /\ settings.cusum_k = cusum_k /\ settings.cusum_h = cusum_h ) =>
                  /\ ~c.alarm
                  /\ Val(w.cusum_upper) <= cusum_h
                  /\ Abs(Val(w.cusum_lower)) <= cusum_h

\* a run whose RPI baseline had variance 0 before the update, so that the bound
\* is met at its edge (lam * z^2 within the slack of 1), and whose CUSUM update
\* started from (0, 0) with the default parameters
C29_Witness ==
    /\ RanOk /\ ~lastRun.again
    /\ lastRun.idx["RPI"].previous # None
    /\ Val(LoadEwma(lastRun.idx["RPI"].previous, lambda_by_index["RPI"]).variance) = 0
    /\ lambda_by_index["RPI"] = ewma_lambda_rpi
    /\ Written("RPI").z_score # None
    /\ LamZSquared(ewma_lambda_rpi, Val(Written("RPI").z_score)) >= SCALE - ZScoreSlack
    /\ lastRun.idx["RPI"].updated
    /\ lastRun.idx["RPI"].loaded = Some(CUSUMState(0, 0))
    /\ Written("RPI").cusum_upper # Some(0) \/ Written("RPI").cusum_lower # Some(0)

\* C30: a run whose lane name is the name of no TradeLane row returns at the
\* lookup (no exception, no statement after it) and leaves the lane_health and
\* index_snapshots tables exactly as they were before the call.
C30_UnknownLaneTouchesNothing ==
    (lastRun.op = "run" /\ \A l \in TradeLanes : l.name # lastRun.lane_name) =>
        /\ lastRun.result = "no_lane"
        /\ snapshots = lastRun.before.snapshots
        /\ health = lastRun.before.health

\* an unknown lane asked for after earlier runs have filled both tables
C30_Witness ==
    /\ lastRun.op = "run" /\ lastRun.result = "no_lane"
    /\ lastRun.lane_name = "UK-Vietnam"
    /\ lastRun.before.snapshots # {} /\ lastRun.before.health # {}
    /\ snapshots # {} /\ health # {}

----------------------------------------------------------------------------
(* SpecResume: run_pipeline invoked once per week of the lane, the weeks in *)
(* chronological order, each run resuming from the snapshots of the one     *)
(* before                                                                   *)

\* the first week that has no snapshot yet
NextWeek == 1 + Cardinality({r.date : r \in snapshots})

NextResume == \E w \in Weeks : w = NextWeek /\ RunPipeline("UK-India", WeekStart(w))

SpecResume == InitPipeline /\ [][NextResume]_vars

\* the weighted total of category idx_type in week w (lines 74-91 and 144-148)
PeriodWeighted(lane_id, idx_type, w) ==
    weighted_by_index(ScoreEvents(SelectEvents(lane_id, WeekStart(w), WeekEnd(WeekStart(w))),
                                  ZeroTotals))[idx_type]

RECURSIVE InMemory(_, _, _)
\* one EWMABaseline object constructed with the category's lambda and fed the
\* weighted totals of weeks 1..w: the baseline after, and the return value of,
\* its last update
InMemory(lane_id, idx_type, w) ==
    EWMABaseline_update(IF w = 1 THEN EWMABaseline(lambda_by_index[idx_type])
                        ELSE InMemory(lane_id, idx_type, w - 1).base,
                        PeriodWeighted(lane_id, idx_type, w))

\* the week whose Friday is the date of snapshot r
WeekOf(r) == (r.date - 4) \div 7

\* C22: with the weeks of a lane processed in chronological order, the
\* ewma_mean and ewma_sigma of every snapshot equal what one in-memory
\* EWMABaseline returns when fed the category's weighted totals of the same
\* weeks in the same order.
C22_ResumeEqualsInMemory ==
    \A r \in snapshots :
        LET m == InMemory(r.trade_lane_id, r.index_type, WeekOf(r)).ret
        IN  /\ r.ewma_mean = Some(m[1])
            /\ r.ewma_sigma = Some(m[2])

----------------------------------------------------------------------------
(* SpecCusumStates: every place the program holds CUSUM accumulators: a     *)
(* CUSUMDetector object under update and reset calls (the behaviours of     *)
(* SpecCusum), and the index_snapshots rows run_pipeline persists (the      *)
(* behaviours of SpecPipeline)                                              *)

InitCusumStates == InitCusum \/ InitPipeline

NextCusumStates ==
    \/ detLog.op # "none" /\ NextCusum
    \/ detLog.op = "none" /\ NextPipeline

SpecCusumStates == InitCusumStates /\ [][NextCusumStates]_vars

\* C26: after any sequence of update and reset calls with k >= 0 a
\* CUSUMDetector has upper >= 0 and lower <= 0; every IndexSnapshot has
\* cusum_upper and cusum_lower both present or both absent, and when present
\* cusum_upper >= 0 and cusum_lower <= 0.
C26_AccumulatorSigns ==
    /\ (detLog.op # "none" /\ det.k >= 0) => (det.upper >= 0 /\ det.lower <= 0)
    /\ \A r \in snapshots :
          /\ (r.cusum_upper = None) <=> (r.cusum_lower = None)
          /\ r.cusum_upper # None => Val(r.cusum_upper) >= 0
          /\ r.cusum_lower # None => Val(r.cusum_lower) <= 0

C26_Witness ==
    /\ \E r \in snapshots :
          /\ r.index_type = "RPI" /\ r.cusum_lower # None
          /\ Val(r.cusum_lower) < 0 /\ Val(r.cusum_upper) = 0
    /\ \E r \in snapshots :
          /\ r.index_type = "RPI" /\ r.cusum_upper # None /\ Val(r.cusum_upper) > 0
    /\ \E r \in snapshots :
          r.index_type = "RPI" /\ r.cusum_upper = None /\ r.cusum_lower = None

----------------------------------------------------------------------------
(* SpecEwmaStates: every place the program holds an EWMA baseline: an       *)
(* EWMABaseline object under update calls (the behaviours of SpecEwma), and *)
(* the baseline run_pipeline loads from the previous snapshot and updates   *)
(* (the behaviours of SpecPipeline)                                         *)

InitEwmaStates == InitEwma \/ InitPipeline

NextEwmaStates ==
    \/ baseLog.op # "none" /\ NextEwma
    \/ baseLog.op = "none" /\ NextPipeline

SpecEwmaStates == InitEwmaStates /\ [][NextEwmaStates]_vars

\* mean and variance of a baseline are both None or both set
BothOrNeither(b) == IsNone(b.mean) <=> IsNone(b.variance)

\* C27: an EWMABaseline has mean None exactly when variance is None; it is
\* constructed uninitialized, every update leaves it tracking (the first one
\* included, none returns it to uninitialized), and with 0 < lam < 1 the
\* variance and the returned sigma are >= 0 after every update; the baseline
\* run_pipeline loads has mean and variance set together, and its update
\* leaves it tracking with variance and sigma >= 0.
C27_EwmaTwoStates ==
    /\ baseLog.op # "none" =>
          /\ BothOrNeither(base)
          /\ baseLog.op = "init" => IsNone(base.mean)
          /\ baseLog.op = "update" =>
                /\ ~IsNone(base.mean)
                /\ Val(base.variance) >= 0
                /\ baseLog.ret[2] >= 0
    /\ RanOk => \A i \in IndexType :
          LET loaded == LoadEwma(lastRun.idx[i].previous, lambda_by_index[i])
              u == EWMABaseline_update(loaded, weighted_by_index(lastRun.totals)[i])
          IN  /\ BothOrNeither(loaded)
              /\ IsNone(loaded.mean) <=> lastRun.idx[i].previous = None
              /\ ~IsNone(loaded.variance) => Val(loaded.variance) >= 0
              /\ ~IsNone(u.base.mean) /\ ~IsNone(u.base.variance)
              /\ Val(u.base.variance) >= 0
              /\ u.ret[2] >= 0 /\ lastRun.idx[i].ewma_sigma = u.ret[2]

C27_Witness ==
    /\ RanOk /\ ~lastRun.again
    /\ lastRun.idx["LSI"].previous # None
    /\ Val(LoadEwma(lastRun.idx["LSI"].previous, lambda_by_index["LSI"]).variance) > 0
    /\ lastRun.idx["LSI"].ewma_sigma > 0

----------------------------------------------------------------------------
(* SpecUnmapped: run_pipeline over an events table in which some rows carry *)
(* a confidence level that CONFIDENCE_WEIGHTS has no entry for              *)

EU == Event("LSI", 1, "Logistics", "Enforced", "Unrated", TRUE, <<"T">>, "UK")

UnmappedWeekPool == {<<>>, <<E1>>, <<E1, EU>>, <<EU, E3>>}

InitUnmapped ==
    /\ settings = Settings
    /\ \E f \in [Weeks -> UnmappedWeekPool] : events = Flatten(f, 1)
    /\ snapshots = {} /\ health = {}
    /\ sess = <<>> /\ lastRun = NoLastRun
    /\ call = NoCall /\ det = NoDet /\ detLog = NoDetLog /\ base = NoBase /\ baseLog = NoBaseLog

SpecUnmapped == InitUnmapped /\ [][NextPipeline]_vars

\* a provenance value of e has no entry in its weight table
Unmapped(e) ==
    \/ e.source_layer \notin SourceLayer
    \/ e.event_status \notin EventStatus
    \/ e.confidence_level \notin ConfidenceLevel
    \/ e.historical_precedent \notin BOOLEAN

\* C13: when an event of the period carries a provenance value without a
\* weight entry, the run ends with the lookup's error instead of scoring the
\* event with a default weight, and index_snapshots and lane_health are
\* exactly as before the run.
C13_UnmappedValueRaises ==
    lastRun.op = "run" =>
        \A lane \in FindLane(lastRun.lane_name) :
            LET evs == SelectEvents(lane.id, lastRun.week_start, lastRun.week_end)
            IN  (\E n \in 1..Len(evs) : Unmapped(evs[n])) =>
                    /\ lastRun.result = "raised"
                    /\ snapshots = lastRun.before.snapshots
                    /\ health = lastRun.before.health
                    /\ HealthRows(health, lane.id, lastRun.week_start) = {}
                    /\ \A i \in IndexType :
                          SnapshotRows(snapshots, lane.id, lastRun.week_end, i) = {}

C13_Witness ==
    /\ lastRun.op = "run" /\ lastRun.result = "raised"
    /\ health # {} /\ snapshots # {}
    /\ \E lane \in FindLane(lastRun.lane_name) :
          LET evs == SelectEvents(lane.id, lastRun.week_start, lastRun.week_end)
          IN  Len(evs) = 2 /\ ~Unmapped(evs[1]) /\ Unmapped(evs[2])

----------------------------------------------------------------------------
(* SpecThresholds: run_pipeline under settings whose lane health thresholds *)
(* the environment set out of order (src/config.py reads every field from   *)
(* the environment or .env and validates database_url only)                 *)

ThresholdSettingsPool ==
    {[Settings EXCEPT !.lane_health_watch = 8, !.lane_health_active = 4],
     [Settings EXCEPT !.lane_health_watch = 4, !.lane_health_active = 4]}

ThresholdWeekPool == {<<>>, <<E1>>, <<E2, E3>>, <<E1, E3, E4, E1>>}

InitThresholds ==
    /\ settings \in ThresholdSettingsPool
    /\ \E f \in [Weeks -> ThresholdWeekPool] : events = Flatten(f, 1)
    /\ snapshots = {} /\ health = {}
    /\ sess = <<>> /\ lastRun = NoLastRun
    /\ call = NoCall /\ det = NoDet /\ detLog = NoDetLog /\ base = NoBase /\ baseLog = NoBaseLog

SpecThresholds == InitThresholds /\ [][NextPipeline]_vars

\* C14: under settings with watch_threshold >= active_threshold no run
\* computes a health status and no LaneHealth row is persisted.
C14_ThresholdOrderRejected ==
    settings.lane_health_watch >= settings.lane_health_active =>
        /\ health = {}
        /\ ~RanOk

----------------------------------------------------------------------------
(* SpecConc: run_pipeline invocations that overlap.  Each invocation owns *)
(* a session (one transaction, READ COMMITTED, the default of the          *)
(* PostgreSQL engine of src/db/engine.py); a step is one awaited call.     *)
(* The unit of work keeps the pending changes in `dirty` until the next    *)
(* query or the commit flushes them; flushed changes are visible to their  *)
(* own session only, until the commit.                                     *)

MaxProcRuns == 2

Procs == {"A", "B"}
IdxOrder == <<"RPI", "LSI", "CPI">>
\* the events the overlapping runs read: odd and even weeks differ
ConcEvents == [w \in Weeks |-> IF w % 2 = 1 THEN <<E1>> ELSE <<E2, E3>>]

Idle(runs) ==
    [pc |-> "idle", runs |-> runs, result |-> "none", week_start |-> 0, week_end |-> 0,
     lane_id |-> 0, t |-> ZeroTotals, lh |-> <<0, "STABLE">>, i |-> 1, c |-> <<>>,
     dirty |-> <<>>, flushed |-> <<>>]

InitConc ==
    /\ settings = Settings
    /\ events = Flatten(ConcEvents, 1)
    /\ snapshots = {} /\ health = {}
    /\ sess = [p \in Procs |-> Idle(0)]
    /\ lastRun = NoLastRun
    /\ call = NoCall /\ det = NoDet /\ detLog = NoDetLog /\ base = NoBase /\ baseLog = NoBaseLog

SameKey(table, r, q) ==
    IF table = "health"
    THEN r.trade_lane_id = q.trade_lane_id /\ r.week_start = q.week_start
    ELSE r.trade_lane_id = q.trade_lane_id /\ r.date = q.date /\ r.index_type = q.index_type

\* an UPDATE names its row by primary key
SameRow(table, r, q) == SameKey(table, r, q) /\ r.id = q.id

\* an UPDATE sets the columns the unit of work saw change
Merge(cur, loaded, new) == [f \in DOMAIN cur |-> IF new[f] # loaded[f] THEN new[f] ELSE cur[f]]

ApplyOp(tables, op) ==
    LET table == tables[op.table]
        after == IF op.kind = "insert" THEN table \cup {op.row}
                 ELSE {IF SameRow(op.table, r, op.loaded) THEN Merge(r, op.loaded, op.row) ELSE r
                       : r \in table}
    IN  [tables EXCEPT ![op.table] = after]

RECURSIVE ApplyOps(_, _)
ApplyOps(tables, ops) ==
    IF ops = <<>> THEN tables ELSE ApplyOps(ApplyOp(tables, Head(ops)), Tail(ops))

Committed == [health |-> health, snapshots |-> snapshots]

\* what a query of session p reads
View(p) == ApplyOps(Committed, sess[p].flushed)

FlushedOps == UNION {{sess[q].flushed[n] : n \in 1..Len(sess[q].flushed)} : q \in Procs}

\* the row lock another session's flushed UPDATE holds
Locked(p, op) ==
    \E q \in Procs \ {p} : \E n \in 1..Len(sess[q].flushed) :
        LET o == sess[q].flushed[n]
        IN  o.kind = "update" /\ o.table = op.table /\ SameRow(op.table, o.loaded, op.loaded)

Emitted(op) == op.kind = "insert" \/ op.row # op.loaded

\* the flush waits for a row lock
Blocked(p) ==
    \E n \in 1..Len(sess[p].dirty) :
        LET op == sess[p].dirty[n] IN op.kind = "update" /\ Emitted(op) /\ Locked(p, op)

\* an INSERT draws its primary key when it is flushed
Keyed(op) ==
    IF op.kind = "insert"
    THEN [op EXCEPT !.row.id =
            FreshId({r \in Committed[op.table] : SameKey(op.table, r, op.row)}
                    \cup {o.row : o \in {o \in FlushedOps : /\ o.kind = "insert"
                                                           /\ o.table = op.table
                                                           /\ SameKey(op.table, o.row, op.row)}})]
    ELSE op

\* the session after its pending changes went to the database
Flush(s) ==
    LET ops == SelectSeq(s.dirty, Emitted)
    IN  [s EXCEPT !.dirty = <<>>, !.flushed = @ \o [n \in 1..Len(ops) |-> Keyed(ops[n])]]

\* lines 40-107: open the session, find the lane, read and score the events
Begin(p, lane_name, week_start) ==
    /\ sess[p].pc = "idle" /\ sess[p].runs < MaxProcRuns
    /\ LET lanes == FindLane(lane_name)
       IN  IF lanes = {}
           THEN sess' = [sess EXCEPT ![p] = [Idle(@.runs + 1) EXCEPT !.result = "no_lane"]]
           ELSE \E lane \in lanes :
                \E t \in {ScoreEvents(SelectEvents(lane.id, week_start, WeekEnd(week_start)),
                                      ZeroTotals)} :
                   sess' = [sess EXCEPT ![p] =
                       IF t.raised THEN [Idle(@.runs + 1) EXCEPT !.result = "error"] ELSE
                       [Idle(@.runs + 1) EXCEPT !.pc = "health", !.week_start = week_start,
                            !.week_end = WeekEnd(week_start), !.lane_id = lane.id, !.t = t,
                            !.lh = compute_lane_health(t.rpi_total, t.lsi_total, t.cpi_total)]]
    /\ UNCHANGED <<objVars, settings, dbVars, lastRun>>

\* the exception leaves the `async with`: the session closes without a commit
Raise(s) == [Idle(s.runs) EXCEPT !.result = "error"]

\* lines 118-142
SelectHealth(p) ==
    LET s == sess[p]
        rows == HealthRows(View(p).health, s.lane_id, s.week_start)
        new(id) == LaneHealth(id, s.lane_id, s.week_start, s.week_end, s.t, s.lh[1], s.lh[2])
    IN  /\ s.pc = "health"
        /\ sess' = [sess EXCEPT ![p] =
              IF Cardinality(rows) > 1 THEN Raise(s)
              ELSE IF rows = {}
              THEN [s EXCEPT !.pc = "previous", !.i = 1,
                       !.dirty = Append(@, [kind |-> "insert", table |-> "health", row |-> new(0)])]
              ELSE LET health_row == CHOOSE r \in rows : TRUE
                   IN  [s EXCEPT !.pc = "previous", !.i = 1,
                           !.dirty = Append(@, [kind |-> "update", table |-> "health",
                                                loaded |-> health_row, row |-> new(health_row.id)])]]
        /\ UNCHANGED <<objVars, settings, dbVars, lastRun>>

\* lines 161-189; the query flushes the pending change first
SelectPrevious(p) ==
    /\ sess[p].pc = "previous"
    /\ ~Blocked(p)
    /\ \E s \in {Flush(sess[p])} :
       \E v \in {ApplyOps(Committed, s.flushed)} :
       \E previous \in PreviousRows(v.snapshots, s.lane_id, IdxOrder[s.i], s.week_end) :
          sess' = [sess EXCEPT ![p] =
              [s EXCEPT !.pc = "existing",
                        !.c = IndexStep(IdxOrder[s.i], previous, weighted_by_index(s.t)[IdxOrder[s.i]])]]
    /\ UNCHANGED <<objVars, settings, dbVars, lastRun>>

\* lines 191-219
SelectExisting(p) ==
    LET s == sess[p]
        idx_type == IdxOrder[s.i]
        rows == SnapshotRows(View(p).snapshots, s.lane_id, s.week_end, idx_type)
        new(id) == IndexSnapshot(id, s.lane_id, s.week_end, idx_type,
                                 raw_by_index(s.t)[idx_type], weighted_by_index(s.t)[idx_type], s.c)
        next == IF s.i < Len(IdxOrder) THEN "previous" ELSE "commit"
    IN  /\ s.pc = "existing"
        /\ sess' = [sess EXCEPT ![p] =
              IF Cardinality(rows) > 1 THEN Raise(s)
              ELSE IF rows = {}
              THEN [s EXCEPT !.pc = next, !.i = Min(@ + 1, Len(IdxOrder)), !.c = <<>>,
                       !.dirty = Append(@, [kind |-> "insert", table |-> "snapshots", row |-> new(0)])]
              ELSE LET snapshot == CHOOSE r \in rows : TRUE
                   IN  [s EXCEPT !.pc = next, !.i = Min(@ + 1, Len(IdxOrder)), !.c = <<>>,
                           !.dirty = Append(@, [kind |-> "update", table |-> "snapshots",
                                                loaded |-> snapshot, row |-> new(snapshot.id)])]]
        /\ UNCHANGED <<objVars, settings, dbVars, lastRun>>

\* line 221
Commit(p) ==
    /\ sess[p].pc = "commit"
    /\ ~Blocked(p)
    /\ \E s \in {Flush(sess[p])} :
       \E v \in {ApplyOps(Committed, s.flushed)} :
          /\ health' = v.health
          /\ snapshots' = v.snapshots
          /\ sess' = [sess EXCEPT ![p] = [Idle(s.runs) EXCEPT !.result = "ok"]]
    /\ UNCHANGED <<objVars, settings, events, lastRun>>

NextConc ==
    \E p \in Procs :
        \/ \E lane_name \in LaneNames, w \in Weeks : Begin(p, lane_name, WeekStart(w))
        \/ SelectHealth(p)
        \/ SelectPrevious(p)
        \/ SelectExisting(p)
        \/ Commit(p)

SpecConc == InitConc /\ [][NextConc]_vars

\* C5: two overlapping runs for the same (lane, week) are serialized by the
\* store: once both have committed there is at most one IndexSnapshot per
\* (lane, index_type, week_end) and at most one LaneHealth per (lane, week_start).
C5_OneRowPerKey ==
    /\ \A r, q \in snapshots : SameKey("snapshots", r, q) => r = q
    /\ \A r, q \in health : SameKey("health", r, q) => r = q

====
